---- MODULE Spec2Model ----
(***************************************************************************)
(* Model of the Clemens IIgs 65C816 core (emulator.c): the CPU register    *)
(* file, the reset / interrupt microcode of clemens_emulate_cpu, the       *)
(* opcode dispatch of cpu_execute, the machine set up by clemens_init and  *)
(* the Intel HEX loader clemens_load_hex.                                  *)
(*                                                                         *)
(* The inline helpers of clem_code.h / clem_util.h / clem_mem.c and the    *)
(* definitions of clem_defs.h / clem_types.h are not part of the sources   *)
(* at hand; they are modelled from the written specification and marked so *)
(* in the model map.                                                       *)
(***************************************************************************)
EXTENDS Integers, Sequences, FiniteSets, TLC

VARIABLES
    cpu,           \* struct Clemens65C816: regs, pins, enabled, state_type, cycles_spent
    mem,           \* emulated memory: bank * 65536 + address -> byte, for the bytes touched so far
    resb_counter,  \* ClemensMachine.resb_counter
    nmi_pending,   \* an NMI edge raised by the host and not yet taken
    last_op,       \* what the last call of the step entry point did (history)
    reset_seq,     \* the reset sequence in progress or just completed (history)
    last_exec,     \* the instruction cpu_execute ran last and the registers it found (history)
    machine,       \* ClemensMachine outside the CPU: the bank map, tspec, the static s_empty_ram
                   \* page the map points to, and the last clemens_init call
    hex            \* the last clemens_load_hex call: its text, its bank and what it returned

vars == <<cpu, mem, resb_counter, nmi_pending, last_op, reset_seq, last_exec, machine, hex>>

(***************************************************************************)
(* Bounds of the exploration.                                              *)
(***************************************************************************)
\* no step is started once cycles_spent has reached this count
MaxCycles == 10
\* largest reset countdown the host hands over with an asserted resb_in
MaxResbCounter == 2
\* the cycle budget of a run of SpecMode
MaxModeCycles == 18
\* the cycle budget of a run of SpecInterrupt
MaxInterruptCycles == 14

\* operand bytes of the instruction stream and contents of memory never written
Bytes == {0, 255}

(***************************************************************************)
(* Status register bits and interrupt vectors (clem_types.h, clem_defs.h). *)
(***************************************************************************)
kClemensCPUStatus_Carry == 1
kClemensCPUStatus_Zero == 2
kClemensCPUStatus_IRQDisable == 4
kClemensCPUStatus_Decimal == 8
kClemensCPUStatus_Index == 16
kClemensCPUStatus_EmulatedBrk == 32
kClemensCPUStatus_MemoryAccumulator == 32
kClemensCPUStatus_Overflow == 64
kClemensCPUStatus_Negative == 128

CLEM_6502_COP_VECTOR_LO_ADDR == 65524
CLEM_6502_COP_VECTOR_HI_ADDR == 65525
CLEM_6502_NMI_VECTOR_LO_ADDR == 65530
CLEM_6502_NMI_VECTOR_HI_ADDR == 65531
CLEM_6502_RESET_VECTOR_LO_ADDR == 65532
CLEM_6502_RESET_VECTOR_HI_ADDR == 65533
CLEM_6502_IRQBRK_VECTOR_LO_ADDR == 65534
CLEM_6502_IRQBRK_VECTOR_HI_ADDR == 65535
CLEM_65816_COP_VECTOR_LO_ADDR == 65508
CLEM_65816_COP_VECTOR_HI_ADDR == 65509
CLEM_65816_BRK_VECTOR_LO_ADDR == 65510
CLEM_65816_BRK_VECTOR_HI_ADDR == 65511
CLEM_65816_NMI_VECTOR_LO_ADDR == 65514
CLEM_65816_NMI_VECTOR_HI_ADDR == 65515
CLEM_65816_IRQB_VECTOR_LO_ADDR == 65518
CLEM_65816_IRQB_VECTOR_HI_ADDR == 65519

(***************************************************************************)
(* Fixed-width arithmetic: uint8_t and uint16_t values and bit operations. *)
(***************************************************************************)
U8(v) == v % 256
U16(v) == v % 65536
Lo(v) == v % 256
Hi(v) == (v \div 256) % 256

BitsOf(v) == {i \in 0..7 : (v \div (2 ^ i)) % 2 = 1}
FromBits(s) ==
    (IF 0 \in s THEN 1 ELSE 0) + (IF 1 \in s THEN 2 ELSE 0) +
    (IF 2 \in s THEN 4 ELSE 0) + (IF 3 \in s THEN 8 ELSE 0) +
    (IF 4 \in s THEN 16 ELSE 0) + (IF 5 \in s THEN 32 ELSE 0) +
    (IF 6 \in s THEN 64 ELSE 0) + (IF 7 \in s THEN 128 ELSE 0)
\* a & b, a | b, a & ~b on bytes
And8(a, b) == FromBits(BitsOf(a) \cap BitsOf(b))
Or8(a, b) == FromBits(BitsOf(a) \cup BitsOf(b))
Clear8(a, b) == FromBits(BitsOf(a) \ BitsOf(b))
\* (P & flag) != 0 for a one-bit flag
Flag(p, flag) == (p \div flag) % 2 = 1

\* (int16_t) cast
Int16(v) == IF v >= 32768 THEN v - 65536 ELSE v

\* CLEM_UTIL_set16_lo(v16, v8): the high byte of v16 over the low byte of v8
CLEM_UTIL_set16_lo(v16, v8) == (v16 - (v16 % 256)) + (v8 % 256)

(***************************************************************************)
(* The machine threaded through the helpers: m.cpu, m.mem and the local    *)
(* tmp_pc of cpu_execute.                                                  *)
(***************************************************************************)
MemKey(bank, addr) == U8(bank) * 65536 + U16(addr)

\* the byte a read finds: the byte last written or seen there, else the
\* content the host left there, which this read sees for the first time
MemByte(m, addr, bank, fresh) ==
    IF MemKey(bank, addr) \in DOMAIN m.mem THEN m.mem[MemKey(bank, addr)] ELSE fresh

\* _clem_cycle(clem, n): n internal cycles
clem_cycle(m, n) == [m EXCEPT !.cpu.cycles_spent = @ + n]

\* clem_read: one bus cycle; the byte read is MemByte
clem_read(m, addr, bank, fresh) ==
    [m EXCEPT !.cpu.cycles_spent = @ + 1,
              !.mem = (MemKey(bank, addr) :> MemByte(m, addr, bank, fresh)) @@ @]

\* clem_read whose datum the caller never uses
clem_read_unused(m, addr, bank) == [m EXCEPT !.cpu.cycles_spent = @ + 1]

\* clem_write: one bus cycle
clem_write(m, data, addr, bank) ==
    [m EXCEPT !.cpu.cycles_spent = @ + 1,
              !.mem = (MemKey(bank, addr) :> U8(data)) @@ @]

\* _clem_read_pba: fetch one byte of the instruction stream at PBR:tmp_pc
clem_read_pba(m) == [m EXCEPT !.cpu.cycles_spent = @ + 1, !.tmp_pc = U16(@ + 1)]
\* _clem_read_pba_16
clem_read_pba_16(m) == clem_read_pba(clem_read_pba(m))
\* _clem_read_pba_mode_imm_816 / _clem_read_pba_816
clem_read_pba_mode_imm_816(m, is8) == IF is8 THEN clem_read_pba(m) ELSE clem_read_pba_16(m)
\* the operand value of an 8 or 16 bit immediate, low byte first
ImmValue(a, is8) == IF is8 THEN a[1] ELSE a[2] * 256 + a[1]

\* the stack address S + k as the stack pointer helpers form it: inside
\* page 1 in emulation mode, over the full 16 bits in native mode
StackAddr(c, k) ==
    IF c.emulation THEN CLEM_UTIL_set16_lo(c.S, U16(c.S + k + 65536)) ELSE U16(c.S + k + 65536)

\* _cpu_sp_dec, _cpu_sp_dec2, _cpu_sp_dec3, _cpu_sp_inc, _cpu_sp_inc2, _cpu_sp_inc3
cpu_sp_add(m, k) == [m EXCEPT !.cpu.S = StackAddr(m.cpu, k)]
cpu_sp_dec(m) == cpu_sp_add(m, -1)
cpu_sp_dec2(m) == cpu_sp_add(m, -2)
cpu_sp_dec3(m) == cpu_sp_add(m, -3)
cpu_sp_inc(m) == cpu_sp_add(m, 1)
cpu_sp_inc2(m) == cpu_sp_add(m, 2)
cpu_sp_inc3(m) == cpu_sp_add(m, 3)

\* _cpu_p_flags_n_z_data, _cpu_p_flags_n_z_data_16, _cpu_p_flags_n_z_data_816
NZ(p, zero, neg) ==
    Or8(Clear8(p, kClemensCPUStatus_Zero + kClemensCPUStatus_Negative),
        (IF zero THEN kClemensCPUStatus_Zero ELSE 0) +
        (IF neg THEN kClemensCPUStatus_Negative ELSE 0))
cpu_p_flags_n_z_data(m, data) ==
    [m EXCEPT !.cpu.P = NZ(@, U8(data) = 0, U8(data) >= 128)]
cpu_p_flags_n_z_data_16(m, data) ==
    [m EXCEPT !.cpu.P = NZ(@, U16(data) = 0, U16(data) >= 32768)]
cpu_p_flags_n_z_data_816(m, data, is8) ==
    IF is8 THEN cpu_p_flags_n_z_data(m, data) ELSE cpu_p_flags_n_z_data_16(m, data)

\* _cpu_p_flags_apply_m_x: an index flag of 1 zeroes the high bytes of X and Y
cpu_p_flags_apply_m_x(m) ==
    IF Flag(m.cpu.P, kClemensCPUStatus_Index)
    THEN [m EXCEPT !.cpu.X = Lo(@), !.cpu.Y = Lo(@)]
    ELSE m

(***************************************************************************)
(* Stack and interrupt helpers.  f is the tuple of bytes that reads of     *)
(* memory not touched before will find.                                    *)
(***************************************************************************)
\* _clem_write_16(clem, value, addr, bank): low byte at addr, high byte at addr + 1
clem_write_16(m, value, addr, bank) ==
    clem_write(clem_write(m, Lo(value), addr, bank), Hi(value), addr + 1, bank)

\* _clem_opc_push_reg_816: one internal cycle, then the high byte (16 bit only)
\* and the low byte are written at S downwards
clem_opc_push_reg_816(m, data, is8) ==
    LET m1 == clem_cycle(m, 1) IN
    IF is8
    THEN cpu_sp_dec(clem_write(m1, Lo(data), m1.cpu.S, 0))
    ELSE cpu_sp_dec2(clem_write(clem_write(m1, Hi(data), m1.cpu.S, 0),
                                Lo(data), StackAddr(m1.cpu, -1), 0))

\* _clem_opc_pull_reg_816: two internal cycles, then the low byte and (16 bit
\* only) the high byte are read from S + 1 upwards; an 8 bit pull keeps the
\* high byte of the register
clem_opc_pull_reg_816(m, reg, is8, f) ==
    LET m1 == clem_cycle(m, 2)
        a1 == StackAddr(m1.cpu, 1)
        a2 == StackAddr(m1.cpu, 2)
        m2 == clem_read(m1, a1, 0, f[1])
        lo == MemByte(m1, a1, 0, f[1])
        m3 == clem_read(m2, a2, 0, f[2])
        hi == MemByte(m2, a2, 0, f[2])
    IN  IF is8
        THEN cpu_sp_inc([m2 EXCEPT !.cpu[reg] = CLEM_UTIL_set16_lo(@, lo)])
        ELSE cpu_sp_inc2([m3 EXCEPT !.cpu[reg] = hi * 256 + lo])

\* _clem_opc_pull_reg_8
clem_opc_pull_reg_8(m, reg, f) ==
    LET m1 == clem_cycle(m, 2)
        a1 == StackAddr(m1.cpu, 1)
    IN  cpu_sp_inc([clem_read(m1, a1, 0, f[1]) EXCEPT !.cpu[reg] = MemByte(m1, a1, 0, f[1])])

\* the status byte as pushed: in emulation mode the break bit stands in the
\* place of the M bit, set for BRK/COP and clear otherwise
PushedStatus(c, is_brk) ==
    IF c.emulation
    THEN IF is_brk THEN Or8(c.P, kClemensCPUStatus_EmulatedBrk)
                   ELSE Clear8(c.P, kClemensCPUStatus_EmulatedBrk)
    ELSE c.P

\* _clem_opc_push_status
clem_opc_push_status(m, is_brk) ==
    cpu_sp_dec(clem_write(m, PushedStatus(m.cpu, is_brk), m.cpu.S, 0))

\* the status byte as pulled: M and X stay forced to 1 in emulation mode
PulledStatus(c, data) ==
    IF c.emulation
    THEN Or8(data, kClemensCPUStatus_MemoryAccumulator + kClemensCPUStatus_Index)
    ELSE data

\* _clem_opc_pull_status
clem_opc_pull_status(m, fresh) ==
    LET a1 == StackAddr(m.cpu, 1)
        m1 == clem_read(m, a1, 0, fresh)
    IN  cpu_p_flags_apply_m_x(
            cpu_sp_inc([m1 EXCEPT !.cpu.P = PulledStatus(m.cpu, MemByte(m, a1, 0, fresh))]))

\* _clem_opc_push_pc16: PCH at S, PCL below it
clem_opc_push_pc16(m, pc) ==
    cpu_sp_dec2(clem_write(clem_write(m, Hi(pc), m.cpu.S, 0), Lo(pc), StackAddr(m.cpu, -1), 0))

\* _clem_read_interrupt_vector: the low byte from bank 0 address lo, the high
\* byte from bank 0 address hi; the result is left in tmp_pc
clem_read_interrupt_vector(m, lo, hi, f) ==
    LET m1 == clem_read(m, lo, 0, f[1])
        m2 == clem_read(m1, hi, 0, f[2])
    IN  [m2 EXCEPT !.tmp_pc = MemByte(m1, hi, 0, f[2]) * 256 + MemByte(m, lo, 0, f[1])]

\* _clem_irq_brk_setup(clem, &PBR, &pc, vlo, vhi, is_brk): push PBR (native
\* only), pc and the status, set I, clear D, enter bank 0 at the vector
clem_irq_brk_setup(m, pc, vlo, vhi, is_brk, f) ==
    LET m1 == IF m.cpu.emulation THEN m ELSE cpu_sp_dec(clem_write(m, m.cpu.PBR, m.cpu.S, 0))
        m2 == clem_opc_push_pc16(m1, pc)
        m3 == clem_opc_push_status(m2, is_brk)
        m4 == [m3 EXCEPT !.cpu.P = Clear8(Or8(@, kClemensCPUStatus_IRQDisable),
                                          kClemensCPUStatus_Decimal),
                         !.cpu.PBR = 0]
    IN  clem_read_interrupt_vector(m4, vlo, vhi, f)

\* _clem_irq_brk_return: pull the status, PCL, PCH and (native only) PBR;
\* the return address is left in tmp_pc
clem_irq_brk_return(m, f) ==
    LET m1 == clem_opc_pull_status(m, f[1])
        a1 == StackAddr(m1.cpu, 1)
        a2 == StackAddr(m1.cpu, 2)
        a3 == StackAddr(m1.cpu, 3)
        m2 == clem_read(m1, a1, 0, f[2])
        m3 == clem_read(m2, a2, 0, f[3])
        m4 == clem_read(m3, a3, 0, f[4])
        pc == MemByte(m2, a2, 0, f[3]) * 256 + MemByte(m1, a1, 0, f[2])
    IN  IF m.cpu.emulation
        THEN cpu_sp_inc2([m3 EXCEPT !.tmp_pc = pc])
        ELSE cpu_sp_inc3([m4 EXCEPT !.tmp_pc = pc, !.cpu.PBR = MemByte(m3, a3, 0, f[4])])

\* _cpu_lda: load A at the accumulator width and set N, Z
cpu_lda(m, value, is8) ==
    cpu_p_flags_n_z_data_816(
        [m EXCEPT !.cpu.A = IF is8 THEN CLEM_UTIL_set16_lo(@, value) ELSE U16(value)],
        value, is8)

\* _cpu_ldxy: load X or Y at the index width and set N, Z
cpu_ldxy(m, reg, value, is8) ==
    cpu_p_flags_n_z_data_816(
        [m EXCEPT !.cpu[reg] = IF is8 THEN CLEM_UTIL_set16_lo(@, value) ELSE U16(value)],
        value, is8)

(***************************************************************************)
(* cpu_execute: the opcodes.  m.tmp_pc is past the opcode byte on entry;   *)
(* a is the tuple of operand bytes that follow the opcode in the           *)
(* instruction stream.                                                     *)
(***************************************************************************)
m_status(m) == Flag(m.cpu.P, kClemensCPUStatus_MemoryAccumulator)
x_status(m) == Flag(m.cpu.P, kClemensCPUStatus_Index)
carry(m) == Flag(m.cpu.P, kClemensCPUStatus_Carry)

CLEM_OPC_CLC(m) == clem_cycle([m EXCEPT !.cpu.P = Clear8(@, kClemensCPUStatus_Carry)], 1)
CLEM_OPC_CLD(m) == clem_cycle([m EXCEPT !.cpu.P = Clear8(@, kClemensCPUStatus_Decimal)], 1)
CLEM_OPC_CLI(m) == clem_cycle([m EXCEPT !.cpu.P = Clear8(@, kClemensCPUStatus_IRQDisable)], 1)
CLEM_OPC_CLV(m) == clem_cycle([m EXCEPT !.cpu.P = Clear8(@, kClemensCPUStatus_Overflow)], 1)
CLEM_OPC_SEC(m) == clem_cycle([m EXCEPT !.cpu.P = Or8(@, kClemensCPUStatus_Carry)], 1)
CLEM_OPC_SED(m) == clem_cycle([m EXCEPT !.cpu.P = Or8(@, kClemensCPUStatus_Decimal)], 1)
CLEM_OPC_SEI(m) == clem_cycle([m EXCEPT !.cpu.P = Or8(@, kClemensCPUStatus_IRQDisable)], 1)
CLEM_OPC_NOP(m) == clem_cycle(m, 1)

\* INX, INY, DEX, DEY: reg is "X" or "Y", delta is +1 or -1
\* an increment that carries into the high byte whatever the index width
IncDecIndex_carry(m, reg, delta) ==
    LET tmp_value == U16(m.cpu[reg] + delta + 65536) IN
    clem_cycle(cpu_p_flags_n_z_data_16([m EXCEPT !.cpu[reg] = tmp_value], tmp_value), 1)
IncDecIndex(m, reg, delta) ==
    LET tmp_value == U16(m.cpu[reg] + delta + 65536) IN
    clem_cycle(
        IF x_status(m)
        THEN cpu_p_flags_n_z_data([m EXCEPT !.cpu[reg] = CLEM_UTIL_set16_lo(@, tmp_value)],
                                  tmp_value)
        ELSE cpu_p_flags_n_z_data_16([m EXCEPT !.cpu[reg] = tmp_value], tmp_value),
        1)
CLEM_OPC_INX(m) == IncDecIndex(m, "X", 1)
CLEM_OPC_INY(m) == IncDecIndex(m, "Y", 1)
CLEM_OPC_DEX(m) == IncDecIndex(m, "X", -1)
CLEM_OPC_DEY(m) == IncDecIndex(m, "Y", -1)

\* LDA # that takes its width from the index registers
CLEM_OPC_LDA_IMM_index_width(m, a) ==
    cpu_lda(clem_read_pba_mode_imm_816(m, x_status(m)), ImmValue(a, x_status(m)), x_status(m))
CLEM_OPC_LDA_IMM(m, a) ==
    cpu_lda(clem_read_pba_mode_imm_816(m, m_status(m)), ImmValue(a, m_status(m)), m_status(m))
CLEM_OPC_LDX_IMM(m, a) ==
    cpu_ldxy(clem_read_pba_mode_imm_816(m, x_status(m)), "X", ImmValue(a, x_status(m)),
             x_status(m))
CLEM_OPC_LDY_IMM(m, a) ==
    cpu_ldxy(clem_read_pba_mode_imm_816(m, x_status(m)), "Y", ImmValue(a, x_status(m)),
             x_status(m))

\* a block move that stops rewinding PC one byte early
MoveBlock_short(m, a, delta, f) ==
    LET m1 == clem_read_pba(clem_read_pba(m))
        m2 == clem_read(m1, m1.cpu.X, a[2], f[1])
        m3 == clem_write(m2, MemByte(m1, m1.cpu.X, a[2], f[1]), m1.cpu.Y, a[1])
        m4 == IF x_status(m)
              THEN [m3 EXCEPT !.cpu.X = CLEM_UTIL_set16_lo(@, U16(@ + delta + 65536)),
                              !.cpu.Y = CLEM_UTIL_set16_lo(@, U16(@ + delta + 65536))]
              ELSE [m3 EXCEPT !.cpu.X = U16(@ + delta + 65536),
                              !.cpu.Y = U16(@ + delta + 65536)]
        m5 == [clem_cycle(m4, 2) EXCEPT !.cpu.A = U16(@ + 65535)]
    IN  [m5 EXCEPT !.tmp_pc = IF m5.cpu.A \notin {0, 65535} THEN m5.cpu.PC ELSE @,
                   !.cpu.DBR = a[1]]
\* MVN, MVP: a[1] is the destination bank, a[2] the source bank
MoveBlock(m, a, delta, f) ==
    LET m1 == clem_read_pba(clem_read_pba(m))
        tmp_bnk1 == a[1]
        tmp_bnk0 == a[2]
        m2 == clem_read(m1, m1.cpu.X, tmp_bnk0, f[1])
        m3 == clem_write(m2, MemByte(m1, m1.cpu.X, tmp_bnk0, f[1]), m1.cpu.Y, tmp_bnk1)
        m4 == IF x_status(m)
              THEN [m3 EXCEPT !.cpu.X = CLEM_UTIL_set16_lo(@, U16(@ + delta + 65536)),
                              !.cpu.Y = CLEM_UTIL_set16_lo(@, U16(@ + delta + 65536))]
              ELSE [m3 EXCEPT !.cpu.X = U16(@ + delta + 65536),
                              !.cpu.Y = U16(@ + delta + 65536)]
        m5 == [clem_cycle(m4, 2) EXCEPT !.cpu.A = U16(@ + 65535)]
    IN  [m5 EXCEPT !.tmp_pc = IF m5.cpu.A # 65535 THEN m5.cpu.PC ELSE @,
                   !.cpu.DBR = tmp_bnk1]
CLEM_OPC_MVN(m, a, f) == MoveBlock(m, a, 1, f)
CLEM_OPC_MVP(m, a, f) == MoveBlock(m, a, -1, f)

CLEM_OPC_PEA_ABS(m, a) ==
    LET m1 == cpu_sp_dec2(clem_read_pba_16(m)) IN
    clem_write_16(m1, a[2] * 256 + a[1], m1.cpu.S + 1, 0)
CLEM_OPC_PER(m, a) ==
    LET m1 == clem_read_pba_16(m)
        tmp_addr == U16(m1.tmp_pc + Int16(a[2] * 256 + a[1]) + 65536)
        m2 == cpu_sp_dec2(clem_cycle(m1, 1))
    IN  clem_write_16(m2, tmp_addr, m2.cpu.S + 1, 0)
CLEM_OPC_PHA(m) == clem_opc_push_reg_816(m, m.cpu.A, m_status(m))
CLEM_OPC_PHX(m) == clem_opc_push_reg_816(m, m.cpu.X, x_status(m))
CLEM_OPC_PHY(m) == clem_opc_push_reg_816(m, m.cpu.Y, x_status(m))
CLEM_OPC_PHB(m) == cpu_sp_dec(clem_write(clem_cycle(m, 1), m.cpu.DBR, m.cpu.S, 0))
CLEM_OPC_PHK(m) == cpu_sp_dec(clem_write(clem_cycle(m, 1), m.cpu.PBR, m.cpu.S, 0))
CLEM_OPC_PHD(m) ==
    cpu_sp_dec2(clem_write(clem_write(clem_cycle(m, 1), Hi(m.cpu.D), m.cpu.S, 0),
                           Lo(m.cpu.D), m.cpu.S + 65535, 0))
CLEM_OPC_PHP(m) == clem_opc_push_status(clem_cycle(m, 1), FALSE)
\* PLA that pulls at the width of the index registers
CLEM_OPC_PLA_index_width(m, f) ==
    LET m1 == clem_opc_pull_reg_816(m, "A", x_status(m), f) IN
    cpu_p_flags_n_z_data_816(m1, m1.cpu.A, x_status(m))
CLEM_OPC_PLA(m, f) ==
    LET m1 == clem_opc_pull_reg_816(m, "A", m_status(m), f) IN
    cpu_p_flags_n_z_data_816(m1, m1.cpu.A, m_status(m))
CLEM_OPC_PLX(m, f) ==
    LET m1 == clem_opc_pull_reg_816(m, "X", x_status(m), f) IN
    cpu_p_flags_n_z_data_816(m1, m1.cpu.X, x_status(m))
CLEM_OPC_PLY(m, f) ==
    LET m1 == clem_opc_pull_reg_816(m, "Y", x_status(m), f) IN
    cpu_p_flags_n_z_data_816(m1, m1.cpu.Y, x_status(m))
CLEM_OPC_PLB(m, f) ==
    LET m1 == clem_opc_pull_reg_8(m, "DBR", f) IN cpu_p_flags_n_z_data(m1, m1.cpu.DBR)
CLEM_OPC_PLD(m, f) ==
    LET m1 == clem_cycle(m, 2)
        m2 == clem_read(m1, m1.cpu.S + 1, 0, f[1])
        m3 == clem_read(m2, m1.cpu.S + 2, 0, f[2])
        d  == MemByte(m2, m1.cpu.S + 2, 0, f[2]) * 256 + MemByte(m1, m1.cpu.S + 1, 0, f[1])
    IN  cpu_p_flags_n_z_data_16(cpu_sp_inc2([m3 EXCEPT !.cpu.D = d]), d)
CLEM_OPC_PLP(m, f) == clem_opc_pull_status(clem_cycle(m, 2), f[1])

\* a REP that clears M and X in emulation mode too
CLEM_OPC_REP_native(m, a) ==
    LET m1 == [clem_read_pba(m) EXCEPT !.cpu.P = Clear8(@, a[1])]
    IN  clem_cycle(cpu_p_flags_apply_m_x(m1), 1)
CLEM_OPC_REP(m, a) ==
    LET m1 == [clem_read_pba(m) EXCEPT !.cpu.P = Clear8(@, a[1])]
        m2 == IF m1.cpu.emulation
              THEN [m1 EXCEPT !.cpu.P = Or8(@, kClemensCPUStatus_MemoryAccumulator +
                                               kClemensCPUStatus_Index)]
              ELSE m1
    IN  clem_cycle(cpu_p_flags_apply_m_x(m2), 1)
CLEM_OPC_SEP(m, a) ==
    LET tmp_data == IF m.cpu.emulation
                    THEN Or8(a[1], kClemensCPUStatus_MemoryAccumulator + kClemensCPUStatus_Index)
                    ELSE a[1]
        m1 == [clem_read_pba(m) EXCEPT !.cpu.P = Or8(@, tmp_data)]
    IN  clem_cycle(cpu_p_flags_apply_m_x(m1), 1)

\* TAX, TAY, TXY, TYX: index register dst takes the value src at the index width
TransferToIndex(m, dst, src) ==
    clem_cycle(
        IF x_status(m)
        THEN LET m1 == [m EXCEPT !.cpu[dst] = CLEM_UTIL_set16_lo(@, src)]
             IN  cpu_p_flags_n_z_data(m1, m1.cpu[dst])
        ELSE cpu_p_flags_n_z_data_16([m EXCEPT !.cpu[dst] = src], src),
        1)
CLEM_OPC_TAX(m) == TransferToIndex(m, "X", m.cpu.A)
CLEM_OPC_TAY(m) == TransferToIndex(m, "Y", m.cpu.A)
CLEM_OPC_TXY(m) == TransferToIndex(m, "Y", m.cpu.X)
CLEM_OPC_TYX(m) == TransferToIndex(m, "X", m.cpu.Y)
CLEM_OPC_TCD(m) == clem_cycle(cpu_p_flags_n_z_data_16([m EXCEPT !.cpu.D = m.cpu.A], m.cpu.A), 1)
CLEM_OPC_TDC(m) == clem_cycle(cpu_p_flags_n_z_data_16([m EXCEPT !.cpu.A = m.cpu.D], m.cpu.D), 1)
CLEM_OPC_TCS(m) ==
    clem_cycle(
        IF m.cpu.emulation
        THEN [m EXCEPT !.cpu.S = CLEM_UTIL_set16_lo(@, m.cpu.A)]
        ELSE [m EXCEPT !.cpu.S = m.cpu.A],
        1)
CLEM_OPC_TSC(m) == clem_cycle(cpu_p_flags_n_z_data_16([m EXCEPT !.cpu.A = m.cpu.S], m.cpu.S), 1)
CLEM_OPC_TSX(m) ==
    clem_cycle(
        IF ~m.cpu.emulation /\ ~x_status(m)
        THEN cpu_p_flags_n_z_data_16([m EXCEPT !.cpu.X = m.cpu.S], m.cpu.S)
        ELSE IF x_status(m)
             THEN cpu_p_flags_n_z_data([m EXCEPT !.cpu.X = CLEM_UTIL_set16_lo(@, m.cpu.S)],
                                       m.cpu.S)
             ELSE m,
        1)
\* TXA, TYA: src is the value of X or Y
TransferToA(m, src) ==
    clem_cycle(
        IF m_status(m)
        THEN cpu_p_flags_n_z_data([m EXCEPT !.cpu.A = CLEM_UTIL_set16_lo(@, src)], src)
        ELSE LET v == IF x_status(m) THEN Lo(src) ELSE src
             IN  cpu_p_flags_n_z_data_16([m EXCEPT !.cpu.A = v], v),
        1)
CLEM_OPC_TXA(m) == TransferToA(m, m.cpu.X)
CLEM_OPC_TYA(m) == TransferToA(m, m.cpu.Y)
CLEM_OPC_TXS(m) ==
    clem_cycle(
        IF m.cpu.emulation
        THEN [m EXCEPT !.cpu.S = CLEM_UTIL_set16_lo(@, m.cpu.X)]
        ELSE IF x_status(m)
             THEN [m EXCEPT !.cpu.S = Lo(m.cpu.X)]
             ELSE [m EXCEPT !.cpu.S = m.cpu.X],
        1)
CLEM_OPC_XBA(m) ==
    LET v == Lo(m.cpu.A) * 256 + Hi(m.cpu.A) IN
    clem_cycle(cpu_p_flags_n_z_data([m EXCEPT !.cpu.A = v], Lo(v)), 2)

\* XCE that swaps carry and emulation and forces nothing on the way
CLEM_OPC_XCE_unforced(m) ==
    LET tmp_value == m.cpu.emulation
        m1 == [m EXCEPT !.cpu.emulation = carry(m)]
        m5 == IF tmp_value
              THEN [m1 EXCEPT !.cpu.P = Or8(@, kClemensCPUStatus_Carry)]
              ELSE [m1 EXCEPT !.cpu.P = Clear8(@, kClemensCPUStatus_Carry)]
    IN  clem_cycle(m5, 1)
\* an XCE that sets the mode from the carry and leaves the carry alone
CLEM_OPC_XCE_one_way(m) ==
    LET tmp_value == m.cpu.emulation
        m1 == [m EXCEPT !.cpu.emulation = carry(m)]
        m2 == IF tmp_value # m1.cpu.emulation
              THEN LET m3 == [m1 EXCEPT !.cpu.P = Or8(@, kClemensCPUStatus_Index +
                                                         kClemensCPUStatus_MemoryAccumulator)]
                       m4 == IF tmp_value
                             THEN m3
                             ELSE [m3 EXCEPT !.cpu.S = CLEM_UTIL_set16_lo(256, @)]
                   IN  cpu_p_flags_apply_m_x(m4)
              ELSE m1
    IN  clem_cycle(m2, 1)
CLEM_OPC_XCE(m) ==
    LET tmp_value == m.cpu.emulation
        m1 == [m EXCEPT !.cpu.emulation = carry(m)]
        m2 == IF tmp_value # m1.cpu.emulation
              THEN LET m3 == [m1 EXCEPT !.cpu.P = Or8(@, kClemensCPUStatus_Index +
                                                         kClemensCPUStatus_MemoryAccumulator)]
                       m4 == IF tmp_value
                             THEN m3
                             ELSE [m3 EXCEPT !.cpu.S = CLEM_UTIL_set16_lo(256, @)]
                   IN  cpu_p_flags_apply_m_x(m4)
              ELSE m1
        m5 == IF tmp_value
              THEN [m2 EXCEPT !.cpu.P = Or8(@, kClemensCPUStatus_Carry)]
              ELSE [m2 EXCEPT !.cpu.P = Clear8(@, kClemensCPUStatus_Carry)]
    IN  clem_cycle(m5, 1)

\* a JSR that pushes the address of the next instruction
CLEM_OPC_JSR_next(m, a) ==
    LET m1 == clem_read_pba_16(m)
        m2 == clem_opc_push_pc16(clem_cycle(m1, 1), m1.tmp_pc)
    IN  [m2 EXCEPT !.tmp_pc = a[2] * 256 + a[1]]
CLEM_OPC_JSR(m, a) ==
    LET m1 == clem_read_pba_16(m)
        tmp_pc == U16(m1.tmp_pc + 65535)
        m2 == clem_opc_push_pc16(clem_cycle(m1, 1), tmp_pc)
    IN  [m2 EXCEPT !.tmp_pc = a[2] * 256 + a[1]]
\* an RTS that resumes at the address it pulled
CLEM_OPC_RTS_exact(m, f) ==
    LET m1 == clem_cycle(m, 2)
        v1 == StackAddr(m1.cpu, 1)
        m2 == clem_read(m1, v1, 0, f[1])
        v2 == StackAddr(m1.cpu, 2)
        m3 == clem_read(m2, v2, 0, f[2])
        tmp_addr == MemByte(m2, v2, 0, f[2]) * 256 + MemByte(m1, v1, 0, f[1])
    IN  [cpu_sp_inc2(clem_cycle(m3, 1)) EXCEPT !.tmp_pc = tmp_addr]
CLEM_OPC_RTS(m, f) ==
    LET m1 == clem_cycle(m, 2)
        v1 == IF m1.cpu.emulation
              THEN CLEM_UTIL_set16_lo(m1.cpu.S, U16(m1.cpu.S + 1))
              ELSE U16(m1.cpu.S + 1)
        m2 == clem_read(m1, v1, 0, f[1])
        v2 == IF m1.cpu.emulation
              THEN CLEM_UTIL_set16_lo(m1.cpu.S, U16(v1 + 1))
              ELSE U16(v1 + 1)
        m3 == clem_read(m2, v2, 0, f[2])
        tmp_addr == MemByte(m2, v2, 0, f[2]) * 256 + MemByte(m1, v1, 0, f[1])
    IN  [cpu_sp_inc2(clem_cycle(m3, 1)) EXCEPT !.tmp_pc = U16(tmp_addr + 1)]
\* a JSL that leaves the program bank alone
CLEM_OPC_JSL_near(m, a) ==
    LET m1 == clem_read_pba_16(m)
        m2 == clem_cycle(clem_write(m1, m1.cpu.PBR, m1.cpu.S, 0), 1)
        m3 == clem_read_pba(m2)
        tmp_pc == U16(m3.tmp_pc + 65535)
        m4 == clem_write(m3, Hi(tmp_pc), m3.cpu.S + 65535, 0)
        m5 == clem_write(m4, Lo(tmp_pc), m3.cpu.S + 65534, 0)
    IN  [cpu_sp_dec3(m5) EXCEPT !.tmp_pc = a[2] * 256 + a[1]]
CLEM_OPC_JSL(m, a) ==
    LET m1 == clem_read_pba_16(m)
        m2 == clem_cycle(clem_write(m1, m1.cpu.PBR, m1.cpu.S, 0), 1)
        m3 == clem_read_pba(m2)
        tmp_pc == U16(m3.tmp_pc + 65535)
        m4 == clem_write(m3, Hi(tmp_pc), m3.cpu.S + 65535, 0)
        m5 == clem_write(m4, Lo(tmp_pc), m3.cpu.S + 65534, 0)
    IN  [cpu_sp_dec3(m5) EXCEPT !.tmp_pc = a[2] * 256 + a[1], !.cpu.PBR = a[3]]
CLEM_OPC_RTL(m, f) ==
    LET m1 == clem_cycle(m, 2)
        m2 == clem_read(m1, m1.cpu.S + 1, 0, f[1])
        m3 == clem_read(m2, m1.cpu.S + 2, 0, f[2])
        m4 == clem_read(m3, m1.cpu.S + 3, 0, f[3])
        tmp_addr == MemByte(m2, m1.cpu.S + 2, 0, f[2]) * 256 + MemByte(m1, m1.cpu.S + 1, 0, f[1])
    IN  [cpu_sp_inc3(m4) EXCEPT !.tmp_pc = U16(tmp_addr + 1),
                                !.cpu.PBR = MemByte(m3, m1.cpu.S + 3, 0, f[3])]

\* the vector pair BRK hands to _clem_irq_brk_setup
BrkVector(c) ==
    IF c.emulation
    THEN <<CLEM_6502_IRQBRK_VECTOR_LO_ADDR, CLEM_6502_IRQBRK_VECTOR_HI_ADDR>>
    ELSE <<CLEM_65816_BRK_VECTOR_LO_ADDR, CLEM_65816_BRK_VECTOR_HI_ADDR>>
\* the vector pair COP hands to _clem_irq_brk_setup
CopVector(c) ==
    IF c.emulation
    THEN <<CLEM_6502_COP_VECTOR_LO_ADDR, CLEM_6502_COP_VECTOR_LO_ADDR>>
    ELSE <<CLEM_65816_COP_VECTOR_LO_ADDR, CLEM_65816_COP_VECTOR_HI_ADDR>>
CLEM_OPC_BRK(m, a, f) ==
    LET m1 == clem_read_pba(m) IN
    clem_irq_brk_setup(m1, m1.tmp_pc, BrkVector(m1.cpu)[1], BrkVector(m1.cpu)[2], TRUE, f)
CLEM_OPC_COP(m, a, f) ==
    LET m1 == clem_read_pba(m) IN
    clem_irq_brk_setup(m1, m1.tmp_pc, CopVector(m1.cpu)[1], CopVector(m1.cpu)[2], TRUE, f)
CLEM_OPC_RTI(m, f) == clem_irq_brk_return(clem_cycle(m, 2), f)
CLEM_OPC_WAI(m) == [clem_cycle(m, 2) EXCEPT !.cpu.readyOut = FALSE]
CLEM_OPC_STP(m) == [clem_cycle(m, 2) EXCEPT !.cpu.enabled = FALSE]
\* WDM: the operand byte selects a custom operation; 0x01 is the memory dump,
\* which fetches three more bytes (length, bank, address) and prints on the host
CLEM_OPC_WDM(m, a) ==
    LET m1 == clem_read_pba(m)
    IN  IF a[1] = 1 THEN clem_read_pba(clem_read_pba(clem_read_pba(m1))) ELSE m1

(***************************************************************************)
(* Arithmetic: ADC with an immediate operand.                              *)
(***************************************************************************)
\* the status byte with C and V replaced and N, Z taken from the result
AluStatus(p, result, is8, c, v) ==
    LET sign == IF is8 THEN 128 ELSE 32768
        p1 == Clear8(NZ(p, result = 0, result >= sign),
                     kClemensCPUStatus_Carry + kClemensCPUStatus_Overflow)
    IN  p1 + (IF c THEN kClemensCPUStatus_Carry ELSE 0) +
             (IF v THEN kClemensCPUStatus_Overflow ELSE 0)
\* V: both operands have the sign the result has not
SignedOverflow(x, y, result, is8) ==
    LET sign == IF is8 THEN 128 ELSE 32768
    IN  (x >= sign) = (y >= sign) /\ (result >= sign) # (x >= sign)
\* the result of an addition stored at the accumulator width: an 8 bit
\* result leaves the high byte of A alone
AluStore(m, x, y, sum, is8) ==
    LET w == IF is8 THEN 256 ELSE 65536
        result == sum % w
    IN  [m EXCEPT !.cpu.A = IF is8 THEN CLEM_UTIL_set16_lo(@, result) ELSE result,
                  !.cpu.P = AluStatus(@, result, is8, sum >= w,
                                      SignedOverflow(x, y, result, is8))]
\* _cpu_adc: A + value + C in binary
cpu_adc(m, value, is8) ==
    LET w == IF is8 THEN 256 ELSE 65536
        x == m.cpu.A % w
        y == value % w
    IN  AluStore(m, x, y, x + y + (IF carry(m) THEN 1 ELSE 0), is8)
\* the decimal adjustment of the binary sum of digit k (0 the lowest) and of
\* the digits above it: 6 is added to a digit above 9
RECURSIVE BcdSum(_, _, _, _, _)
BcdSum(x, y, cin, k, digits) ==
    IF k = digits THEN cin * (16 ^ digits)
    ELSE LET d == ((x \div (16 ^ k)) % 16) + ((y \div (16 ^ k)) % 16) + cin
             adj == IF d > 9 THEN d + 6 ELSE d
         IN  (adj % 16) * (16 ^ k) + BcdSum(x, y, IF adj > 15 THEN 1 ELSE 0, k + 1, digits)
\* _cpu_adc_bcd: A + value + C in decimal, digit by digit
cpu_adc_bcd(m, value, is8) ==
    LET w == IF is8 THEN 256 ELSE 65536
        x == m.cpu.A % w
        y == value % w
    IN  AluStore(m, x, y, BcdSum(x, y, IF carry(m) THEN 1 ELSE 0, 0, IF is8 THEN 2 ELSE 4), is8)

\* ADC # that spends one more cycle on the decimal adjustment
CLEM_OPC_ADC_IMM_decimal_cycle(m, a) ==
    LET m1 == clem_read_pba_mode_imm_816(m, m_status(m))
    IN  IF ~Flag(m.cpu.P, kClemensCPUStatus_Decimal)
        THEN cpu_adc(m1, ImmValue(a, m_status(m)), m_status(m))
        ELSE clem_cycle(cpu_adc_bcd(m1, ImmValue(a, m_status(m)), m_status(m)), 1)
CLEM_OPC_ADC_IMM(m, a) ==
    LET m1 == clem_read_pba_mode_imm_816(m, m_status(m))
    IN  IF ~Flag(m.cpu.P, kClemensCPUStatus_Decimal)
        THEN cpu_adc(m1, ImmValue(a, m_status(m)), m_status(m))
        ELSE cpu_adc_bcd(m1, ImmValue(a, m_status(m)), m_status(m))

(***************************************************************************)
(* Branches and jumps.                                                     *)
(***************************************************************************)
\* (int8_t) cast
Int8(v) == IF v >= 128 THEN v - 256 ELSE v
\* _clem_branch(clem, &tmp_pc, offset, condition): a branch taken moves
\* tmp_pc by the signed offset inside the bank and spends one cycle, and one
\* more in emulation mode when the target lies in another page
clem_branch(m, offset, condition) ==
    LET tmp_addr == U16(m.tmp_pc + Int8(offset) + 65536)
        crossed == Hi(tmp_addr) # Hi(m.tmp_pc)
    IN  IF ~condition THEN m
        ELSE [clem_cycle(m, IF m.cpu.emulation /\ crossed THEN 2 ELSE 1)
                 EXCEPT !.tmp_pc = tmp_addr]
CLEM_OPC_BCC(m, a) == clem_branch(clem_read_pba(m), a[1], ~carry(m))
CLEM_OPC_BCS(m, a) == clem_branch(clem_read_pba(m), a[1], carry(m))
CLEM_OPC_BEQ(m, a) == clem_branch(clem_read_pba(m), a[1], Flag(m.cpu.P, kClemensCPUStatus_Zero))
CLEM_OPC_BMI(m, a) ==
    clem_branch(clem_read_pba(m), a[1], Flag(m.cpu.P, kClemensCPUStatus_Negative))
CLEM_OPC_BNE(m, a) == clem_branch(clem_read_pba(m), a[1], ~Flag(m.cpu.P, kClemensCPUStatus_Zero))
CLEM_OPC_BPL(m, a) ==
    clem_branch(clem_read_pba(m), a[1], ~Flag(m.cpu.P, kClemensCPUStatus_Negative))
CLEM_OPC_BRA(m, a) == clem_branch(clem_read_pba(m), a[1], TRUE)
\* BRL that adds the displacement to the address of its own opcode
CLEM_OPC_BRL_from_opcode(m, a) ==
    LET m1 == clem_read_pba_16(m)
        tmp_addr == U16(m.tmp_pc - 1 + Int16(a[2] * 256 + a[1]) + 65536)
    IN  [clem_cycle(m1, 1) EXCEPT !.tmp_pc = tmp_addr]
CLEM_OPC_BRL(m, a) ==
    LET m1 == clem_read_pba_16(m)
        tmp_addr == U16(m1.tmp_pc + Int16(a[2] * 256 + a[1]) + 65536)
    IN  [clem_cycle(m1, 1) EXCEPT !.tmp_pc = tmp_addr]
CLEM_OPC_BVC(m, a) ==
    clem_branch(clem_read_pba(m), a[1], ~Flag(m.cpu.P, kClemensCPUStatus_Overflow))
CLEM_OPC_BVS(m, a) ==
    clem_branch(clem_read_pba(m), a[1], Flag(m.cpu.P, kClemensCPUStatus_Overflow))

CLEM_OPC_JMP_ABS(m, a) == [clem_read_pba_16(m) EXCEPT !.tmp_pc = a[2] * 256 + a[1]]
CLEM_OPC_JMP_ABSL(m, a) ==
    [clem_read_pba(clem_read_pba_16(m)) EXCEPT !.tmp_pc = a[2] * 256 + a[1], !.cpu.PBR = a[3]]
\* JML [abs]: the target and its bank are read from bank 0 at abs, abs + 1
\* and abs + 2
CLEM_OPC_JMP_ABSL_INDIRECT(m, a, f) ==
    LET tmp_addr == a[2] * 256 + a[1]
        m1 == clem_read_pba_16(m)
        m2 == clem_read(m1, tmp_addr, 0, f[1])
        m3 == clem_read(m2, tmp_addr + 1, 0, f[2])
        m4 == clem_read(m3, tmp_addr + 2, 0, f[3])
    IN  [m4 EXCEPT !.tmp_pc = MemByte(m2, tmp_addr + 1, 0, f[2]) * 256 +
                              MemByte(m1, tmp_addr, 0, f[1]),
                   !.cpu.PBR = MemByte(m3, tmp_addr + 2, 0, f[3])]

(***************************************************************************)
(* cpu_execute: fetch the opcode at PBR:PC, run it, store tmp_pc into PC.  *)
(***************************************************************************)
ImpliedOpcodes ==
    {"CLC", "CLD", "CLI", "CLV", "SEC", "SED", "SEI", "NOP", "INX", "INY", "DEX", "DEY",
     "PHA", "PHX", "PHY", "PHB", "PHK", "PHD", "PHP", "TAX", "TAY", "TXY", "TYX", "TCD",
     "TDC", "TCS", "TSC", "TSX", "TXA", "TYA", "TXS", "XBA", "XCE", "WAI", "STP"}
Imm8Opcodes == {"REP", "SEP"}
Imm816Opcodes == {"LDA_IMM", "LDX_IMM", "LDY_IMM"}
Abs16Opcodes == {"JSR", "PEA_ABS", "PER"}
LongOpcodes == {"JSL"}
PullOpcodes == {"PLA", "PLX", "PLY", "PLB", "PLD", "PLP", "RTS"}
ReturnOpcodes == {"RTL", "RTI"}
MoveOpcodes == {"MVN", "MVP"}
BreakOpcodes == {"BRK", "COP"}
DebugOpcodes == {"WDM"}
Opcodes ==
    ImpliedOpcodes \cup Imm8Opcodes \cup Imm816Opcodes \cup Abs16Opcodes \cup LongOpcodes
    \cup PullOpcodes \cup ReturnOpcodes \cup MoveOpcodes \cup BreakOpcodes \cup DebugOpcodes
\* the opcodes of the arithmetic and of the branches and jumps
AluOpcodes == {"ADC_IMM"}
BranchOpcodes == {"BCC", "BCS", "BEQ", "BMI", "BNE", "BPL", "BRA", "BVC", "BVS"}
JumpOpcodes == {"BRL", "JMP_ABS", "JMP_ABSL", "JMP_ABSL_INDIRECT"}

Zero3 == <<0, 0, 0>>
Zero4 == <<0, 0, 0, 0>>

\* the switch (IR) of cpu_execute
Dispatch(m, IR, a, f) ==
    CASE IR = "CLC" -> CLEM_OPC_CLC(m)
      [] IR = "CLD" -> CLEM_OPC_CLD(m)
      [] IR = "CLI" -> CLEM_OPC_CLI(m)
      [] IR = "CLV" -> CLEM_OPC_CLV(m)
      [] IR = "SEC" -> CLEM_OPC_SEC(m)
      [] IR = "SED" -> CLEM_OPC_SED(m)
      [] IR = "SEI" -> CLEM_OPC_SEI(m)
      [] IR = "NOP" -> CLEM_OPC_NOP(m)
      [] IR = "INX" -> CLEM_OPC_INX(m)
      [] IR = "INY" -> CLEM_OPC_INY(m)
      [] IR = "DEX" -> CLEM_OPC_DEX(m)
      [] IR = "DEY" -> CLEM_OPC_DEY(m)
      [] IR = "LDA_IMM" -> CLEM_OPC_LDA_IMM(m, a)
      [] IR = "LDX_IMM" -> CLEM_OPC_LDX_IMM(m, a)
      [] IR = "LDY_IMM" -> CLEM_OPC_LDY_IMM(m, a)
      [] IR = "MVN" -> CLEM_OPC_MVN(m, a, f)
      [] IR = "MVP" -> CLEM_OPC_MVP(m, a, f)
      [] IR = "PEA_ABS" -> CLEM_OPC_PEA_ABS(m, a)
      [] IR = "PER" -> CLEM_OPC_PER(m, a)
      [] IR = "PHA" -> CLEM_OPC_PHA(m)
      [] IR = "PHB" -> CLEM_OPC_PHB(m)
      [] IR = "PHD" -> CLEM_OPC_PHD(m)
      [] IR = "PHK" -> CLEM_OPC_PHK(m)
      [] IR = "PHP" -> CLEM_OPC_PHP(m)
      [] IR = "PHX" -> CLEM_OPC_PHX(m)
      [] IR = "PHY" -> CLEM_OPC_PHY(m)
      [] IR = "PLA" -> CLEM_OPC_PLA(m, f)
      [] IR = "PLB" -> CLEM_OPC_PLB(m, f)
      [] IR = "PLD" -> CLEM_OPC_PLD(m, f)
      [] IR = "PLP" -> CLEM_OPC_PLP(m, f)
      [] IR = "PLX" -> CLEM_OPC_PLX(m, f)
      [] IR = "PLY" -> CLEM_OPC_PLY(m, f)
      [] IR = "REP" -> CLEM_OPC_REP(m, a)
      [] IR = "SEP" -> CLEM_OPC_SEP(m, a)
      [] IR = "TAX" -> CLEM_OPC_TAX(m)
      [] IR = "TAY" -> CLEM_OPC_TAY(m)
      [] IR = "TCD" -> CLEM_OPC_TCD(m)
      [] IR = "TDC" -> CLEM_OPC_TDC(m)
      [] IR = "TCS" -> CLEM_OPC_TCS(m)
      [] IR = "TSC" -> CLEM_OPC_TSC(m)
      [] IR = "TSX" -> CLEM_OPC_TSX(m)
      [] IR = "TXA" -> CLEM_OPC_TXA(m)
      [] IR = "TXS" -> CLEM_OPC_TXS(m)
      [] IR = "TXY" -> CLEM_OPC_TXY(m)
      [] IR = "TYA" -> CLEM_OPC_TYA(m)
      [] IR = "TYX" -> CLEM_OPC_TYX(m)
      [] IR = "XBA" -> CLEM_OPC_XBA(m)
      [] IR = "XCE" -> CLEM_OPC_XCE(m)
      [] IR = "JSR" -> CLEM_OPC_JSR(m, a)
      [] IR = "RTS" -> CLEM_OPC_RTS(m, f)
      [] IR = "JSL" -> CLEM_OPC_JSL(m, a)
      [] IR = "RTL" -> CLEM_OPC_RTL(m, f)
      [] IR = "BRK" -> CLEM_OPC_BRK(m, a, f)
      [] IR = "COP" -> CLEM_OPC_COP(m, a, f)
      [] IR = "RTI" -> CLEM_OPC_RTI(m, f)
      [] IR = "WAI" -> CLEM_OPC_WAI(m)
      [] IR = "STP" -> CLEM_OPC_STP(m)
      [] IR = "WDM" -> CLEM_OPC_WDM(m, a)
      [] IR = "ADC_IMM" -> CLEM_OPC_ADC_IMM(m, a)
      [] IR = "BCC" -> CLEM_OPC_BCC(m, a)
      [] IR = "BCS" -> CLEM_OPC_BCS(m, a)
      [] IR = "BEQ" -> CLEM_OPC_BEQ(m, a)
      [] IR = "BMI" -> CLEM_OPC_BMI(m, a)
      [] IR = "BNE" -> CLEM_OPC_BNE(m, a)
      [] IR = "BPL" -> CLEM_OPC_BPL(m, a)
      [] IR = "BRA" -> CLEM_OPC_BRA(m, a)
      [] IR = "BRL" -> CLEM_OPC_BRL(m, a)
      [] IR = "BVC" -> CLEM_OPC_BVC(m, a)
      [] IR = "BVS" -> CLEM_OPC_BVS(m, a)
      [] IR = "JMP_ABS" -> CLEM_OPC_JMP_ABS(m, a)
      [] IR = "JMP_ABSL" -> CLEM_OPC_JMP_ABSL(m, a)
      [] IR = "JMP_ABSL_INDIRECT" -> CLEM_OPC_JMP_ABSL_INDIRECT(m, a, f)

\* the trace record opc_inst that cpu_execute fills in for _opcode_print:
\* the bank and address of the opcode and the cycles the instruction took
ClemensInstruction(pbr, addr, cycles_spent) ==
    [pbr |-> pbr, addr |-> addr, cycles_spent |-> cycles_spent]
\* cpu_execute that notes the address of the trace record once its fetches
\* are done
cpu_execute_traced_late(c, memory, IR, a, f) ==
    LET m0 == [cpu |-> c, mem |-> memory, tmp_pc |-> c.PC]
        m1 == clem_read_pba(m0)
        m2 == Dispatch(m1, IR, a, f)
    IN  [cpu |-> [m2.cpu EXCEPT !.PC = m2.tmp_pc], mem |-> m2.mem, tmp_pc |-> m2.tmp_pc,
         opc_inst |-> ClemensInstruction(m2.cpu.PBR, m2.tmp_pc,
                                         m2.cpu.cycles_spent - c.cycles_spent)]
\* cpu_execute whose opcode fetch at the last byte of a bank carries into
\* the program bank
cpu_execute_bank_carry(c, memory, IR, a, f) ==
    LET m0 == [cpu |-> c, mem |-> memory, tmp_pc |-> c.PC]
        m1 == [clem_read_pba(m0) EXCEPT !.cpu.PBR = IF c.PC = 65535 THEN U8(@ + 1) ELSE @]
        m2 == Dispatch(m1, IR, a, f)
    IN  [cpu |-> [m2.cpu EXCEPT !.PC = m2.tmp_pc], mem |-> m2.mem, tmp_pc |-> m2.tmp_pc,
         opc_inst |-> ClemensInstruction(c.PBR, c.PC, m2.cpu.cycles_spent - c.cycles_spent)]
\* cpu_execute(cpu, clem) with IR the opcode found at PBR:PC
cpu_execute(c, memory, IR, a, f) ==
    LET m0 == [cpu |-> c, mem |-> memory, tmp_pc |-> c.PC]
        m1 == clem_read_pba(m0)
        m2 == Dispatch(m1, IR, a, f)
    IN  [cpu |-> [m2.cpu EXCEPT !.PC = m2.tmp_pc], mem |-> m2.mem, tmp_pc |-> m2.tmp_pc,
         opc_inst |-> ClemensInstruction(c.PBR, c.PC, m2.cpu.cycles_spent - c.cycles_spent)]

\* history of the opcode callback: the calls made so far and the trace
\* record handed to the last of them
NoCallback == [calls |-> 0, inst |-> ClemensInstruction(0, 0, 0)]
\* clemens_opcode_callback(clem, callback): callback is "NULL" or a function
clemens_opcode_callback(mch, callback) ==
    [mch EXCEPT !.debug_flags = IF callback # "NULL" THEN @ \cup {"OpcodeCallback"}
                                ELSE @ \ {"OpcodeCallback"},
                !.opcode_post = callback]
\* a trace that calls back whether or not a callback is registered
opcode_print_always(mch, inst) ==
    [mch EXCEPT !.posted = [calls |-> @.calls + 1, inst |-> inst]]
\* _opcode_print, reached from cpu_execute when any debug flag is set: the
\* call of opcode_post
opcode_print(mch, inst) ==
    IF mch.debug_flags # {} /\ "OpcodeCallback" \in mch.debug_flags /\ mch.opcode_post # "NULL"
    THEN [mch EXCEPT !.posted = [calls |-> @.calls + 1, inst |-> inst]]
    ELSE mch

(***************************************************************************)
(* The video generator (clem_vgc.c).  mode_flags is the set of the flags   *)
(* that are set; the scanline tables that clem_vgc_reset fills in are left *)
(* out.  The flag values, the timing constants and the conversions between *)
(* clocks and nanoseconds come from headers that are not in src/.          *)
(***************************************************************************)
\* the resolution flags that clem_vgc_set_mode replaces as a group
CLEM_VGC_RESOLUTION_MASK == {"LORES", "HIRES", "RES_320", "RES_640"}
\* nanoseconds of a Mega II cycle, of a scanline and of an NTSC frame of 262
\* scanlines; the scanline the vertical blank starts at
CLEM_MEGA2_CYCLE_NS == 978
CLEM_VGC_HORIZ_SCAN_TIME_NS == 63700
CLEM_VGC_NTSC_SCAN_TIME_NS == 16689400
CLEM_VGC_VBL_NTSC_UPPER_BOUND == 192
\* _clem_calc_ns_step_from_clocks
clem_calc_ns_step_from_clocks(clocks, ref_step) == (CLEM_MEGA2_CYCLE_NS * clocks) \div ref_step
\* _clem_calc_clocks_step_from_ns of an unsigned difference a - b: what a
\* difference below 0 wraps to depends on widths that are not in src/ and is
\* the input `wrapped`
clem_calc_clocks_step_from_ns(a, b, ref_step, wrapped) ==
    IF a >= b THEN ((a - b) * ref_step) \div CLEM_MEGA2_CYCLE_NS ELSE wrapped

\* history of the device calls: the last call, its arguments and its result
NoDeviceCall == [op |-> "none", arg |-> 0, no_op |-> FALSE, result |-> 0, irq_line |-> {}]
ClemensClock(ts, ref_step) == [ts |-> ts, ref_step |-> ref_step]
\* a zeroed ClemensVGC
ZeroVGC ==
    [mode_flags |-> {}, text_fg_color |-> "none", text_bg_color |-> "none", text_language |-> 0,
     ts_last_frame |-> 0, ts_scanline_0 |-> 0, dt_scanline |-> 0, irq_line |-> {}]
clem_vgc_reset(vgc) ==
    [vgc EXCEPT !.mode_flags = {"INIT"},
                !.text_fg_color = "WHITE", !.text_bg_color = "MEDIUM_BLUE"]
clem_vgc_clear_mode(vgc, mode_flags) == [vgc EXCEPT !.mode_flags = @ \ mode_flags]
clem_vgc_set_mode(vgc, mode_flags) ==
    LET v1 == IF mode_flags \cap CLEM_VGC_RESOLUTION_MASK # {}
              THEN clem_vgc_clear_mode(vgc, CLEM_VGC_RESOLUTION_MASK) ELSE vgc
    IN  [v1 EXCEPT !.mode_flags = @ \cup mode_flags]
\* a region write that takes the PAL flag from bit 3 as well
clem_vgc_set_region_one_bit(vgc, c02b_value) ==
    LET v1 == IF (c02b_value \div 8) % 2 = 1 THEN clem_vgc_set_mode(vgc, {"LANGUAGE"})
              ELSE clem_vgc_clear_mode(vgc, {"LANGUAGE"})
        v2 == IF (c02b_value \div 8) % 2 = 1 THEN clem_vgc_set_mode(v1, {"PAL"})
              ELSE clem_vgc_clear_mode(v1, {"PAL"})
    IN  [v2 EXCEPT !.text_language = (c02b_value \div 32) % 8]
clem_vgc_set_region(vgc, c02b_value) ==
    LET v1 == IF (c02b_value \div 8) % 2 = 1 THEN clem_vgc_set_mode(vgc, {"LANGUAGE"})
              ELSE clem_vgc_clear_mode(vgc, {"LANGUAGE"})
        v2 == IF (c02b_value \div 16) % 2 = 1 THEN clem_vgc_set_mode(v1, {"PAL"})
              ELSE clem_vgc_clear_mode(v1, {"PAL"})
    IN  [v2 EXCEPT !.text_language = (c02b_value \div 32) % 8]
clem_vgc_get_region(vgc) ==
    (IF "LANGUAGE" \in vgc.mode_flags THEN 8 ELSE 0) +
    (IF "PAL" \in vgc.mode_flags THEN 16 ELSE 0) +
    ((vgc.text_language * 32) % 256)
clem_vgc_sync(vgc, clock, wrapped) ==
    IF "INIT" \in vgc.mode_flags
    THEN [vgc EXCEPT !.ts_last_frame = clock.ts, !.ts_scanline_0 = clock.ts,
                     !.dt_scanline = 0, !.mode_flags = @ \ {"INIT"}]
    ELSE LET dt == vgc.dt_scanline + (clock.ts - vgc.ts_last_frame)
             scanline_ns == clem_calc_ns_step_from_clocks(dt, clock.ref_step)
             dt1 == IF scanline_ns > CLEM_VGC_HORIZ_SCAN_TIME_NS
                    THEN clem_calc_clocks_step_from_ns(CLEM_VGC_HORIZ_SCAN_TIME_NS, dt,
                                                       clock.ref_step, wrapped)
                    ELSE dt
             frame_ns == clem_calc_ns_step_from_clocks(clock.ts - vgc.ts_scanline_0,
                                                       clock.ref_step)
             v_counter == frame_ns \div CLEM_VGC_HORIZ_SCAN_TIME_NS
         IN  [vgc EXCEPT
                 !.dt_scanline = dt1,
                 !.irq_line = IF "ENABLE_VBL_IRQ" \in vgc.mode_flags /\
                                 v_counter >= CLEM_VGC_VBL_NTSC_UPPER_BOUND
                              THEN @ \cup {"VGC_BLANK"} ELSE @,
                 !.ts_scanline_0 =
                     IF frame_ns >= CLEM_VGC_NTSC_SCAN_TIME_NS
                     THEN clock.ts - clem_calc_clocks_step_from_ns(
                                         CLEM_VGC_NTSC_SCAN_TIME_NS, frame_ns,
                                         clock.ref_step, wrapped)
                     ELSE @,
                 !.ts_last_frame = clock.ts]
\* the register value computed from the counters
VgcSwitchValue(vgc, clock, ioreg) ==
    LET scan_time_ns == clem_calc_ns_step_from_clocks(clock.ts - vgc.ts_scanline_0,
                                                      clock.ref_step)
        v_counter == scan_time_ns \div CLEM_VGC_HORIZ_SCAN_TIME_NS
        h_counter == clem_calc_ns_step_from_clocks(vgc.dt_scanline, clock.ref_step) \div 980
    IN  CASE ioreg = "VBLBAR" ->
               IF v_counter >= CLEM_VGC_VBL_NTSC_UPPER_BOUND THEN 128 ELSE 0
          [] ioreg = "VGC_VERTCNT" -> ((v_counter + 250) \div 2) % 256
          [] ioreg = "VGC_HORIZCNT" ->
               LET r == IF h_counter < 1 THEN 0 ELSE (63 + h_counter) % 256
               IN  (r % 128) + 128 * (IF r >= 128 \/ (v_counter + 250) % 2 = 1 THEN 1 ELSE 0)
          [] OTHER -> 0
\* a register read that brings the counters up to date whatever its flags
clem_vgc_read_switch_always_syncs(vgc, clock, ioreg, no_op, wrapped) ==
    LET v1 == clem_vgc_sync(vgc, clock, wrapped)
    IN  [vgc |-> v1, result |-> VgcSwitchValue(v1, clock, ioreg)]
\* clem_vgc_read_switch: the VGC after the call and the value returned;
\* no_op is the CLEM_MEM_IO_READ_NO_OP bit of flags
clem_vgc_read_switch(vgc, clock, ioreg, no_op, wrapped) ==
    LET v1 == IF ~no_op THEN clem_vgc_sync(vgc, clock, wrapped) ELSE vgc
    IN  [vgc |-> v1, result |-> VgcSwitchValue(v1, clock, ioreg)]

(***************************************************************************)
(* The Mega II timers (clem_timer.c).  flags and irq_line are the sets of  *)
(* the bits that are set; the periods are in a header that is not in src/. *)
(***************************************************************************)
\* microseconds of the 1 second and of the quarter second timer
CLEM_MEGA2_TIMER_1SEC_US == 1000000
CLEM_MEGA2_TIMER_QSEC_US == 266667
ClemensDeviceTimer(irq_1sec_us, irq_qtrsec_us, flags) ==
    [irq_1sec_us |-> irq_1sec_us, irq_qtrsec_us |-> irq_qtrsec_us, flags |-> flags]
clem_timer_reset(timer) == ClemensDeviceTimer(0, 0, {})
\* one of the while loops of clem_timer_sync: the counter and irq_line when
\* it ends
RECURSIVE TimerLoop(_, _, _, _, _)
TimerLoop(us, period, enabled, irq_line, bit) ==
    IF us >= period
    THEN TimerLoop(us - period, period, enabled,
                   IF enabled THEN irq_line \cup {bit} ELSE irq_line, bit)
    ELSE [us |-> us, irq_line |-> irq_line]
\* a sync that takes one period off a counter at most
clem_timer_sync_one_period(timer, delta_us, irq_line) ==
    LET s1 == timer.irq_1sec_us + delta_us
        q1 == timer.irq_qtrsec_us + delta_us
        l1 == IF s1 >= CLEM_MEGA2_TIMER_1SEC_US /\ "1SEC_ENABLED" \in timer.flags
              THEN irq_line \cup {"TIMER_RTC_1SEC"} ELSE irq_line
        l2 == IF q1 >= CLEM_MEGA2_TIMER_QSEC_US /\ "QSEC_ENABLED" \in timer.flags
              THEN l1 \cup {"TIMER_QSEC"} ELSE l1
    IN  [timer |-> [timer EXCEPT
                       !.irq_1sec_us = IF s1 >= CLEM_MEGA2_TIMER_1SEC_US
                                       THEN s1 - CLEM_MEGA2_TIMER_1SEC_US ELSE s1,
                       !.irq_qtrsec_us = IF q1 >= CLEM_MEGA2_TIMER_QSEC_US
                                         THEN q1 - CLEM_MEGA2_TIMER_QSEC_US ELSE q1],
         irq_line |-> l2]
\* a sync that looks at the 1 second enable flag for both timers
clem_timer_sync_one_flag(timer, delta_us, irq_line) ==
    LET l1 == TimerLoop(timer.irq_1sec_us + delta_us, CLEM_MEGA2_TIMER_1SEC_US,
                        "1SEC_ENABLED" \in timer.flags, irq_line, "TIMER_RTC_1SEC")
        l2 == TimerLoop(timer.irq_qtrsec_us + delta_us, CLEM_MEGA2_TIMER_QSEC_US,
                        "1SEC_ENABLED" \in timer.flags, l1.irq_line, "TIMER_QSEC")
    IN  [timer |-> [timer EXCEPT !.irq_1sec_us = l1.us, !.irq_qtrsec_us = l2.us],
         irq_line |-> l2.irq_line]
\* clem_timer_sync: the timer after the call and the irq_line returned
clem_timer_sync(timer, delta_us, irq_line) ==
    LET l1 == TimerLoop(timer.irq_1sec_us + delta_us, CLEM_MEGA2_TIMER_1SEC_US,
                        "1SEC_ENABLED" \in timer.flags, irq_line, "TIMER_RTC_1SEC")
        l2 == TimerLoop(timer.irq_qtrsec_us + delta_us, CLEM_MEGA2_TIMER_QSEC_US,
                        "QSEC_ENABLED" \in timer.flags, l1.irq_line, "TIMER_QSEC")
    IN  [timer |-> [timer EXCEPT !.irq_1sec_us = l1.us, !.irq_qtrsec_us = l2.us],
         irq_line |-> l2.irq_line]

(***************************************************************************)
(* The machine after construction: a zeroed ClemensMachine on which        *)
(* clemens_simple_init has run.  No byte of memory has been touched yet.   *)
(***************************************************************************)
clemens_simple_init ==
    [A |-> 0, X |-> 0, Y |-> 0, S |-> 0, D |-> 0, PC |-> 0, PBR |-> 0, DBR |-> 0, P |-> 0,
     emulation |-> FALSE, readyOut |-> FALSE, enabled |-> FALSE, state_type |-> "None",
     cycles_spent |-> 0, resbIn |-> TRUE, irqbIn |-> TRUE]

\* what a reset sequence leaves behind: the processor but for its cycle count
ResetOutcome(c) == [c EXCEPT !.cycles_spent = 0]
\* history of the reset sequence in progress or just completed: cycles_spent
\* when resb_in was first observed low, the steps taken with it low, the
\* sequences completed since the last step that was no part of a reset,
\* what the first of them left behind, and, until the sequence completes,
\* the countdown the host asked for when it last asserted resb_in and the
\* steps taken with it low since
NoResetSeq ==
    [start |-> 0, low_steps |-> 0, completed |-> 0, post |-> ResetOutcome(clemens_simple_init),
     armed |-> 0, armed_steps |-> 0]

\* history of cpu_execute: the opcode and operand bytes it ran last, the
\* registers it found, the trace record it handed to _opcode_print, and, for
\* an opcode that restarts itself by rewinding PC, the registers its first
\* execution found and the executions so far
Found(c) == [A |-> c.A, X |-> c.X, Y |-> c.Y, S |-> c.S, PC |-> c.PC, PBR |-> c.PBR]
NoExec ==
    [IR |-> "none", a |-> Zero3, cpu |-> Found(clemens_simple_init),
     first |-> Found(clemens_simple_init), run |-> 0,
     inst |-> ClemensInstruction(0, 0, 0)]
\* clem->dev_debug: the location of the opcode fetched last
ClemensDeviceDebugger(pbr, pc) == [pbr |-> pbr, pc |-> pc]

(***************************************************************************)
(* ClemensMachine outside the CPU: the bank maps and the clock step that   *)
(* clemens_simple_init and clemens_init fill in.  Pointers are "NULL" or   *)
(* name the buffer they point into; the bank map is followed for the banks *)
(* of BankSample.  s_empty_ram is the static page behind every unmapped    *)
(* bank: offset -> byte for the bytes stored into it since it was zeroed.  *)
(***************************************************************************)
BankSample == {0, 1, 3, 4, 252, 254, 255}
\* the arguments of an initialisation call
InitArguments(rom, e0bank, e1bank, fpiRAM, fpiRAMBankCount, clocks_step, speed_factor) ==
    [rom |-> rom, e0bank |-> e0bank, e1bank |-> e1bank, fpiRAM |-> fpiRAM,
     fpiRAMBankCount |-> fpiRAMBankCount, clocks_step |-> clocks_step,
     speed_factor |-> speed_factor]
\* a zeroed ClemensMachine, before any initialisation call
ZeroMachine ==
    [fpi_bank_map |-> [b \in BankSample |-> "NULL"],
     fpi_bank_used |-> [b \in BankSample |-> FALSE],
     mega2_bank_map |-> <<"NULL", "NULL">>,
     s_empty_ram |-> << >>,
     dev_debug |-> ClemensDeviceDebugger(0, 0),
     debug_flags |-> {}, opcode_post |-> "NULL", posted |-> NoCallback,
     vgc |-> ZeroVGC, clock |-> ClemensClock(0, 1), io |-> NoDeviceCall,
     timer |-> ClemensDeviceTimer(0, 0, {}), elapsed_us |-> 0,
     clocks_step |-> 0, clocks_step_mega2 |-> 0,
     args |-> InitArguments("NULL", "NULL", "NULL", "NULL", 0, 0, 0),
     called |-> FALSE, returned |-> FALSE, ret |-> 0]
\* the bank pointer ((uint8_t *)fpiRAM) + i * 65536
FpiBank(fpiRAM, i) == IF fpiRAM = "NULL" THEN (IF i = 0 THEN "NULL" ELSE "wild") ELSE "fpiRAM"
\* clemens_simple_init memsets every bank it maps: with a null fpiRAM and a
\* bank count above 0 it writes through a null pointer
WritesThroughNull(a) == a.fpiRAM = "NULL" /\ a.fpiRAMBankCount > 0
\* clemens_simple_init on the machine: clock steps and the fast RAM bank map;
\* bank 0xff is reached by neither loop unless 256 banks are mapped
clemens_simple_init_machine(mch, a) ==
    LET count == IF a.fpiRAMBankCount > 256 THEN 256 ELSE a.fpiRAMBankCount
    IN  [mch EXCEPT !.clocks_step = a.clocks_step,
                    !.clocks_step_mega2 = a.speed_factor,
                    !.s_empty_ram = << >>,
                    !.fpi_bank_used = [b \in BankSample |->
                                          IF b < count THEN TRUE
                                          ELSE IF b < 255 THEN FALSE
                                          ELSE @[b]],
                    !.fpi_bank_map = [b \in BankSample |->
                                         IF b < count THEN FpiBank(a.fpiRAM, b)
                                         ELSE IF b < 255 THEN "empty"
                                         ELSE @[b]]]
\* clemens_init: the simple initialisation, then the checks, then the ROM
\* and slow RAM banks
clemens_init(mch, a) ==
    LET m1 == [clemens_simple_init_machine(mch, a) EXCEPT !.args = a, !.called = TRUE,
                                                          !.returned = TRUE]
    IN  IF a.rom = "NULL" THEN [m1 EXCEPT !.ret = -1]
        ELSE IF \/ a.fpiRAMBankCount < 4 \/ a.fpiRAM = "NULL"
                \/ a.e0bank = "NULL" \/ a.e1bank = "NULL"
             THEN [m1 EXCEPT !.ret = -2]
        ELSE [m1 EXCEPT !.fpi_bank_map = [b \in BankSample |-> IF b >= 252 THEN "rom" ELSE @[b]],
                        !.fpi_bank_used = [b \in BankSample |-> IF b >= 252 THEN TRUE ELSE @[b]],
                        !.mega2_bank_map = <<a.e0bank, a.e1bank>>,
                        !.ret = 0]
\* the call that faults while clemens_simple_init clears bank 0: it never
\* returns, and the bank map holds what was stored before the fault
InitFaulted(mch, a) ==
    [mch EXCEPT !.clocks_step = a.clocks_step, !.clocks_step_mega2 = a.speed_factor,
                !.fpi_bank_used[0] = TRUE,
                !.fpi_bank_map[0] = FpiBank(a.fpiRAM, 0),
                !.args = a, !.called = TRUE, !.returned = FALSE]
clemens_is_initialized_simple(mch) == mch.fpi_bank_map[0] # "NULL"
clemens_is_initialized(mch) ==
    /\ clemens_is_initialized_simple(mch)
    /\ mch.fpi_bank_map[1] # "NULL"
    /\ ~(mch.clocks_step = 0 \/ mch.clocks_step > mch.clocks_step_mega2)

\* the machine the processor specifications run on: clemens_simple_init with
\* four banks of fast RAM
PowerOnMachine ==
    clemens_simple_init_machine(ZeroMachine,
                                InitArguments("NULL", "NULL", "NULL", "fpiRAM", 4, 1, 1))

(***************************************************************************)
(* clemens_load_hex.  A text is a sequence of characters, "LF" and "CR"    *)
(* standing for the line feed and the carriage return, followed by the     *)
(* terminating NUL; a pointer into it is an index, hex_end is the index of *)
(* the NUL, or 0 when the caller passes NULL.                              *)
(***************************************************************************)
HexDigits == <<"0", "1", "2", "3", "4", "5", "6", "7", "8", "9", "A", "B", "C", "D", "E", "F">>
IsHexDigit(ch) == \E i \in 1..16 : HexDigits[i] = ch
DigitValue(ch) == (CHOOSE i \in 1..16 : HexDigits[i] = ch) - 1
\* *p
CharAt(text, p) == IF p \in 1..Len(text) THEN text[p] ELSE "NUL"
isspace(ch) == ch \in {" ", "LF", "CR"}
RECURSIVE HexNumber(_, _, _)
HexNumber(text, start, end) ==
    IF start >= end THEN 0
    ELSE HexNumber(text, start, end - 1) * 16 + DigitValue(text[end - 1])
\* _clem_util_hex_value(&value, start, end): the number the hex digits of
\* [start, end) spell, or failure when one of them is no hex digit
clem_util_hex_value(text, start, end) ==
    IF \A p \in start..(end - 1) : IsHexDigit(CharAt(text, p))
    THEN [ok |-> TRUE, value |-> HexNumber(text, start, end)]
    ELSE [ok |-> FALSE, value |-> 0]

\* the locals of clemens_load_hex when the loop is entered
LoadHexEntry(text, hex_end, bank, mch, memory) ==
    [text |-> text, hex_end |-> hex_end, clem_memory |-> mch.fpi_bank_map[bank], bank |-> bank,
     line |-> 1, next |-> 1, state |-> "BEGIN",
     hex_byte_length |-> 0, hex_address16 |-> 0, hex_recordtype |-> 255, chksum |-> 0,
     mem |-> memory, s_empty_ram |-> mch.s_empty_ram]
\* clem_memory[offset] = data: the store lands in the page the bank pointer
\* names, the shared s_empty_ram page for a bank mapped to it
LoadHexStore(h, offset, data) ==
    IF h.clem_memory = "empty"
    THEN [h EXCEPT !.s_empty_ram = (U16(offset) :> U8(data)) @@ @]
    ELSE [h EXCEPT !.mem = (MemKey(h.bank, offset) :> U8(data)) @@ @]
\* the loop condition (hex_end && line < hex_end) || *line
LoadHexMore(h) == (h.hex_end # 0 /\ h.line < h.hex_end) \/ CharAt(h.text, h.line) # "NUL"
\* state = to, and --next when the token that ended has no delimiter
LoadHexTo(h, to, backtrack) ==
    [h EXCEPT !.state = to, !.next = IF backtrack THEN @ - 1 ELSE @]
\* the switch (cur_state) of one pass of the loop, outside the ERROR state
LoadHexSwitch(h) ==
    LET token_len == h.next - h.line
        ch == CharAt(h.text, h.next)
        word == clem_util_hex_value(h.text, h.line, h.next)
    IN  CASE h.state = "CR" -> LoadHexTo(h, IF ch = "LF" THEN "BEGIN" ELSE "ERROR", FALSE)
          [] h.state = "BEGIN" ->
                LoadHexTo(h, IF ch = ":" THEN "LENGTH"
                             ELSE IF isspace(ch) THEN "BEGIN" ELSE "ERROR", FALSE)
          [] h.state = "LENGTH" ->
                IF token_len # 2 THEN h
                ELSE IF ~word.ok THEN LoadHexTo(h, "ERROR", FALSE)
                ELSE LET h1 == [h EXCEPT !.hex_byte_length = word.value,
                                         !.chksum = U8(word.value)]
                     IN  IF h.clem_memory # "NULL" THEN LoadHexTo(h1, "ADR16", TRUE)
                         ELSE LoadHexTo(h1, "ERROR", FALSE)
          [] h.state = "ADR16" ->
                IF token_len # 4 THEN h
                ELSE IF ~word.ok THEN LoadHexTo(h, "ERROR", FALSE)
                ELSE LoadHexTo([h EXCEPT !.hex_address16 = U16(word.value),
                                         !.chksum = U8(@ + Hi(U16(word.value)) +
                                                       Lo(U16(word.value)))],
                               "RECORD", TRUE)
          [] h.state = "RECORD" ->
                IF token_len # 2 THEN h
                ELSE IF ~word.ok THEN LoadHexTo(h, "ERROR", FALSE)
                ELSE LET h1 == [h EXCEPT !.hex_recordtype = U8(word.value),
                                         !.chksum = U8(@ + U8(word.value))]
                     IN  IF U8(word.value) = 0 THEN LoadHexTo(h1, "DATA", TRUE)
                         ELSE IF U8(word.value) = 1 THEN LoadHexTo(h1, "CHKSUM", TRUE)
                         ELSE LoadHexTo(h1, "ERROR", FALSE)
          [] h.state = "DATA" ->
                IF token_len % 2 # 0 \/ token_len \div 2 = 0 THEN h
                ELSE LET tmp == (token_len \div 2) - 1
                         data == clem_util_hex_value(h.text, h.line + tmp * 2, h.next)
                         h1 == IF data.ok
                               THEN LoadHexStore([h EXCEPT !.chksum = U8(@ + U8(data.value))],
                                                 h.hex_address16 + tmp, data.value)
                               ELSE LoadHexTo(h, "ERROR", FALSE)
                     IN  IF tmp + 1 >= h.hex_byte_length THEN LoadHexTo(h1, "CHKSUM", TRUE)
                         ELSE h1
          [] h.state = "CHKSUM" ->
                IF token_len # 2 THEN h
                ELSE LET sum == U8(1 + (255 - h.chksum))
                         h1 == [h EXCEPT !.chksum = sum]
                     IN  IF word.ok /\ sum = U8(word.value)
                         THEN LoadHexTo(h1, IF h.hex_recordtype = 1 THEN "EOF" ELSE "EOL", FALSE)
                         ELSE LoadHexTo(h1, "ERROR", FALSE)
          [] h.state = "EOL" ->
                IF ch = "CR" THEN LoadHexTo(h, "CR", FALSE)
                ELSE IF ch = "LF" THEN LoadHexTo(h, "BEGIN", FALSE)
                ELSE h
\* the end of a pass: next moves on unless it is at the NUL, and line
\* follows it when the state has changed
LoadHexAdvance(h, cur_state) ==
    IF CharAt(h.text, h.next) = "NUL" THEN [h EXCEPT !.line = h.next]
    ELSE [h EXCEPT !.next = @ + 1, !.line = IF h.state # cur_state THEN h.next + 1 ELSE @]
\* the loop: true when it runs out of text or meets the EOF state, false
\* when a pass starts in the ERROR state
RECURSIVE LoadHexLoop(_)
LoadHexLoop(h) ==
    IF ~LoadHexMore(h) \/ h.state = "EOF"
    THEN [ret |-> TRUE, mem |-> h.mem, s_empty_ram |-> h.s_empty_ram, state |-> h.state]
    ELSE IF h.state = "ERROR"
    THEN [ret |-> FALSE, mem |-> h.mem, s_empty_ram |-> h.s_empty_ram, state |-> h.state]
    ELSE LoadHexLoop(LoadHexAdvance(LoadHexSwitch(h), h.state))
clemens_load_hex_rolls_back(text, hex_end, bank, mch, memory) ==
    LET out == LoadHexLoop(LoadHexEntry(text, hex_end, bank, mch, memory))
    IN  IF out.ret THEN out ELSE [out EXCEPT !.mem = memory, !.s_empty_ram = mch.s_empty_ram]
clemens_load_hex_needs_eof(text, hex_end, bank, mch, memory) ==
    LET out == LoadHexLoop(LoadHexEntry(text, hex_end, bank, mch, memory))
    IN  [out EXCEPT !.ret = @ /\ out.state = "EOF"]
\* clemens_load_hex(clem, hex, hex_end, bank)
clemens_load_hex(text, hex_end, bank, mch, memory) ==
    LoadHexLoop(LoadHexEntry(text, hex_end, bank, mch, memory))

\* no call of clemens_load_hex yet
NoHexCall == [records |-> << >>, text |-> << >>, bank |-> 0, called |-> FALSE, ret |-> FALSE]

Init ==
    /\ cpu = clemens_simple_init
    /\ mem = << >>
    /\ resb_counter = 0
    /\ nmi_pending = FALSE
    /\ last_op = "init"
    /\ reset_seq = NoResetSeq
    /\ last_exec = NoExec
    /\ machine = PowerOnMachine
    /\ hex = NoHexCall

(***************************************************************************)
(* Interrupt unit: the lines are sampled when a step begins.  In the       *)
(* Execute state an asserted irqb_in with I = 0 selects the IRQ state, a   *)
(* pending NMI edge the NMI state.                                         *)
(***************************************************************************)
IrqTaken(c) ==
    c.state_type = "Execute" /\ ~c.irqbIn /\ ~Flag(c.P, kClemensCPUStatus_IRQDisable)
NmiTaken(c, nmi) == c.state_type = "Execute" /\ ~IrqTaken(c) /\ nmi
InterruptSample(c, nmi) ==
    IF IrqTaken(c) THEN [c EXCEPT !.state_type = "IRQ"]
    ELSE IF NmiTaken(c, nmi) THEN [c EXCEPT !.state_type = "NMI"]
    ELSE c

(***************************************************************************)
(* Host entry points on the pins.  A run is over once `bound` cycles are   *)
(* spent: no action is taken after that.                                   *)
(***************************************************************************)
\* reset(): assert resb_in, optionally with a countdown after which it deasserts
HostReset(k, bound) ==
    /\ cpu.cycles_spent < bound
    /\ cpu.resbIn
    /\ cpu' = [cpu EXCEPT !.resbIn = FALSE]
    /\ resb_counter' = k
    /\ last_op' = "host"
    /\ reset_seq' = [reset_seq EXCEPT !.armed = k, !.armed_steps = 0]
    /\ UNCHANGED <<mem, nmi_pending, last_exec, machine, hex>>

\* the host releases resb_in
HostReleaseReset(bound) ==
    /\ cpu.cycles_spent < bound
    /\ ~cpu.resbIn
    /\ cpu' = [cpu EXCEPT !.resbIn = TRUE]
    /\ last_op' = "host"
    /\ UNCHANGED <<mem, resb_counter, nmi_pending, reset_seq, last_exec, machine, hex>>

\* clemens_opcode_callback: the host registers or clears the opcode callback
HostOpcodeCallback(callback, bound) ==
    /\ cpu.cycles_spent < bound
    /\ machine.opcode_post # callback
    /\ machine' = clemens_opcode_callback(machine, callback)
    /\ last_op' = "host"
    /\ UNCHANGED <<cpu, mem, resb_counter, nmi_pending, reset_seq, last_exec, hex>>

\* set_irq(level): irqb_in is active low
HostSetIrq(level, bound) ==
    /\ cpu.cycles_spent < bound
    /\ cpu.irqbIn = level
    /\ cpu' = [cpu EXCEPT !.irqbIn = ~level]
    /\ last_op' = "host"
    /\ UNCHANGED <<mem, resb_counter, nmi_pending, reset_seq, last_exec, machine, hex>>

\* set_nmi(pulse): an edge, latched until the NMI state is entered
HostSetNmi(bound) ==
    /\ cpu.cycles_spent < bound
    /\ ~nmi_pending
    /\ nmi_pending' = TRUE
    /\ last_op' = "host"
    /\ UNCHANGED <<cpu, mem, resb_counter, reset_seq, last_exec, machine, hex>>

(***************************************************************************)
(* clemens_emulate_cpu, one action for each of its paths.                  *)
(***************************************************************************)
\* a reset that leaves the mode pin alone
ResetRegisters_keep_mode(c) ==
    [c EXCEPT !.state_type = "Reset",
              !.D = 0, !.DBR = 0, !.PBR = 0,
              !.S = Lo(@) + 256,
              !.X = Lo(@), !.Y = Lo(@),
              !.P = Or8(Clear8(@, kClemensCPUStatus_MemoryAccumulator + kClemensCPUStatus_Index +
                                  kClemensCPUStatus_Decimal + kClemensCPUStatus_IRQDisable +
                                  kClemensCPUStatus_Carry),
                        kClemensCPUStatus_MemoryAccumulator + kClemensCPUStatus_Index +
                        kClemensCPUStatus_IRQDisable),
              !.readyOut = TRUE, !.enabled = TRUE,
              !.cycles_spent = @ + 1]

\* the register file forced by an asserted resb_in outside the Reset state
ResetRegisters(c) ==
    [c EXCEPT !.state_type = "Reset",
              !.D = 0, !.DBR = 0, !.PBR = 0,
              !.S = Lo(@) + 256,
              !.X = Lo(@), !.Y = Lo(@),
              !.P = Or8(Clear8(@, kClemensCPUStatus_MemoryAccumulator + kClemensCPUStatus_Index +
                                  kClemensCPUStatus_Decimal + kClemensCPUStatus_IRQDisable +
                                  kClemensCPUStatus_Carry),
                        kClemensCPUStatus_MemoryAccumulator + kClemensCPUStatus_Index +
                        kClemensCPUStatus_IRQDisable),
              !.emulation = TRUE, !.readyOut = TRUE, !.enabled = TRUE,
              !.cycles_spent = @ + 1]

\* a countdown that releases resb_in one step early
ResbCountdown_early(counter) ==
    IF counter > 0
    THEN [counter |-> counter - 1, resbIn |-> (counter - 1 <= 1)]
    ELSE [counter |-> counter, resbIn |-> FALSE]

\* the countdown of an asserted resb_in: the counter and the pin after the step
ResbCountdown(counter) ==
    IF counter > 0
    THEN [counter |-> counter - 1, resbIn |-> (counter - 1 <= 0)]
    ELSE [counter |-> counter, resbIn |-> FALSE]

\* a resb_in-low path that charges no cycle of its own
ResbLow_uncounted(c, counter) ==
    LET c1 == IF c.state_type # "Reset" THEN ResetRegisters(c) ELSE c
    IN  [c1 EXCEPT !.resbIn = ResbCountdown(counter).resbIn]

\* the whole resb_in-low path on the processor
ResbLow(c, counter) ==
    LET c1 == IF c.state_type # "Reset" THEN ResetRegisters(c) ELSE c
    IN  [c1 EXCEPT !.cycles_spent = @ + 1, !.resbIn = ResbCountdown(counter).resbIn]

\* resb_in low: the reset overrides any other state
EmulateResbLow(bound) ==
    /\ cpu.cycles_spent < bound
    /\ ~cpu.resbIn
    /\ cpu' = ResbLow(cpu, resb_counter)
    /\ resb_counter' = ResbCountdown(resb_counter).counter
    /\ last_op' = "reset_low"
    /\ reset_seq' = IF cpu.state_type # "Reset"
                    THEN [reset_seq EXCEPT !.start = cpu.cycles_spent, !.low_steps = 1,
                                           !.armed_steps = @ + 1]
                    ELSE [reset_seq EXCEPT !.low_steps = @ + 1, !.armed_steps = @ + 1]
    /\ UNCHANGED <<mem, nmi_pending, machine, hex>>
    /\ last_exec' = NoExec

\* resb_in high and the core stopped: the call returns at once
EmulateDisabled ==
    /\ cpu.resbIn
    /\ ~cpu.enabled
    /\ last_op' = "disabled"
    /\ UNCHANGED <<cpu, mem, resb_counter, nmi_pending, reset_seq, last_exec, machine, hex>>

\* a reset that loads PC from the IRQ/BRK vector
ResetVectorPull_irq_vector(c, memory, f) ==
    LET m0 == [cpu |-> c, mem |-> memory, tmp_pc |-> c.PC]
        m3 == cpu_sp_dec3(clem_cycle(m0, 3))
        m4 == clem_read_interrupt_vector(m3, CLEM_6502_IRQBRK_VECTOR_LO_ADDR,
                                         CLEM_6502_IRQBRK_VECTOR_HI_ADDR, f)
    IN  [m4 EXCEPT !.cpu.PC = m4.tmp_pc, !.cpu.state_type = "Execute"]

\* a reset whose stack cycles leave S where it was
ResetVectorPull_keeps_stack(c, memory, f) ==
    LET m0 == [cpu |-> c, mem |-> memory, tmp_pc |-> c.PC]
        m3 == clem_cycle(m0, 3)
        m4 == clem_read_interrupt_vector(m3, CLEM_6502_RESET_VECTOR_LO_ADDR,
                                         CLEM_6502_RESET_VECTOR_HI_ADDR, f)
    IN  [m4 EXCEPT !.cpu.PC = m4.tmp_pc, !.cpu.state_type = "Execute"]

\* resb_in high in the Reset state: three stack cycles, then the reset vector
ResetVectorPull(c, memory, f) ==
    LET m0 == [cpu |-> c, mem |-> memory, tmp_pc |-> c.PC]
        m1 == clem_read_unused(m0, c.S, 0)
        tmp_addr == IF c.emulation
                    THEN CLEM_UTIL_set16_lo(c.S, U16(c.S + 65535))
                    ELSE U16(c.S + 65535)
        m2 == cpu_sp_dec2(clem_read_unused(m1, tmp_addr, 0))
        m3 == cpu_sp_dec(clem_read_unused(m2, m2.cpu.S, 0))
        m4 == clem_read_interrupt_vector(m3, CLEM_6502_RESET_VECTOR_LO_ADDR,
                                         CLEM_6502_RESET_VECTOR_HI_ADDR, f)
    IN  [m4 EXCEPT !.cpu.PC = m4.tmp_pc, !.cpu.state_type = "Execute"]

EmulateResetVector(bound) ==
    /\ cpu.cycles_spent < bound
    /\ cpu.resbIn
    /\ cpu.enabled
    /\ cpu.state_type = "Reset"
    /\ \E f1 \in Bytes, f2 \in Bytes :
          LET m == ResetVectorPull(cpu, mem, <<f1, f2>>)
          IN  /\ cpu' = m.cpu
              /\ mem' = m.mem
              /\ reset_seq' = [reset_seq EXCEPT
                                  !.armed = 0, !.armed_steps = 0,
                                  !.completed = @ + 1,
                                  !.post = IF reset_seq.completed = 0
                                           THEN ResetOutcome(m.cpu) ELSE @]
    /\ last_op' = "reset_vector"
    /\ UNCHANGED <<resb_counter, nmi_pending, machine, hex>>
    /\ last_exec' = NoExec

\* a vector choice that knows the emulation mode only
InterruptVector_emulation_only(c) ==
    <<IF c.state_type = "NMI" THEN CLEM_6502_NMI_VECTOR_LO_ADDR
                              ELSE CLEM_6502_IRQBRK_VECTOR_LO_ADDR,
      IF c.state_type = "NMI" THEN CLEM_6502_NMI_VECTOR_HI_ADDR
                              ELSE CLEM_6502_IRQBRK_VECTOR_HI_ADDR>>

\* the vector pair of the IRQ or NMI state in the current mode
InterruptVector(c) ==
    IF c.emulation
    THEN <<IF c.state_type = "NMI" THEN CLEM_6502_NMI_VECTOR_LO_ADDR
                                   ELSE CLEM_6502_IRQBRK_VECTOR_LO_ADDR,
           IF c.state_type = "NMI" THEN CLEM_6502_NMI_VECTOR_HI_ADDR
                                   ELSE CLEM_6502_IRQBRK_VECTOR_HI_ADDR>>
    ELSE <<IF c.state_type = "NMI" THEN CLEM_65816_NMI_VECTOR_LO_ADDR
                                   ELSE CLEM_65816_IRQB_VECTOR_LO_ADDR,
           IF c.state_type = "NMI" THEN CLEM_65816_NMI_VECTOR_LO_ADDR
                                   ELSE CLEM_65816_IRQB_VECTOR_HI_ADDR>>

\* resb_in high in the IRQ or NMI state: the interrupt microcode
InterruptEntry(c, memory, f) ==
    LET m0 == clem_cycle([cpu |-> c, mem |-> memory, tmp_pc |-> c.PC], 2)
        m1 == clem_irq_brk_setup(m0, c.PC, InterruptVector(c)[1], InterruptVector(c)[2],
                                 FALSE, f)
    IN  [m1 EXCEPT !.cpu.PC = m1.tmp_pc, !.cpu.state_type = "Execute"]

EmulateInterrupt(bound) ==
    /\ cpu.cycles_spent < bound
    /\ cpu.resbIn
    /\ cpu.enabled
    /\ InterruptSample(cpu, nmi_pending).state_type \in {"IRQ", "NMI"}
    /\ \E f1 \in Bytes, f2 \in Bytes :
          LET m == InterruptEntry(InterruptSample(cpu, nmi_pending), mem, <<f1, f2>>)
          IN  cpu' = m.cpu /\ mem' = m.mem
    /\ nmi_pending' = (nmi_pending /\ ~NmiTaken(cpu, nmi_pending))
    /\ last_op' = (IF NmiTaken(cpu, nmi_pending) THEN "nmi" ELSE "irq")
    /\ reset_seq' = NoResetSeq
    /\ UNCHANGED <<resb_counter, machine, hex>>
    /\ last_exec' = NoExec

\* the block move that ran last rewound PC to its own opcode
Restarted == last_exec.IR \in MoveOpcodes /\ cpu.PC = last_exec.cpu.PC
\* the byte that block move stored did not land on its own three bytes
CodeIntact ==
    MemKey(last_exec.a[1], last_exec.cpu.Y) \notin
        {MemKey(last_exec.cpu.PBR, last_exec.cpu.PC + i) : i \in 0..2}
\* the opcode fetch at PBR:PC finds the bytes it found the step before, when
\* PC was rewound to them and nothing was stored over them
Refetched(IR, a) == (Restarted /\ CodeIntact) => (IR = last_exec.IR /\ a = last_exec.a)
Executed(IR, a) ==
    [IR |-> IR, a |-> a, cpu |-> Found(cpu),
     first |-> IF Restarted THEN last_exec.first ELSE Found(cpu),
     run |-> IF Restarted THEN last_exec.run + 1 ELSE 1,
     inst |-> ClemensInstruction(0, 0, 0)]

\* a step that runs the opcode although the core is stopped
EmulateExecute_while_stopped(IR, a, f, bound) ==
    /\ cpu.cycles_spent < bound
    /\ cpu.resbIn
    /\ InterruptSample(cpu, nmi_pending).state_type \notin {"Reset", "IRQ", "NMI"}
    /\ Refetched(IR, a)
    /\ LET m == cpu_execute(cpu, mem, IR, a, f)
       IN  /\ cpu' = m.cpu
           /\ mem' = m.mem
           /\ machine' = opcode_print([machine EXCEPT !.dev_debug =
                                           ClemensDeviceDebugger(cpu.PBR, cpu.PC)],
                                       m.opc_inst)
           /\ last_exec' = [Executed(IR, a) EXCEPT !.inst = m.opc_inst]
    /\ last_op' = IR
    /\ reset_seq' = NoResetSeq
    /\ UNCHANGED <<resb_counter, nmi_pending, hex>>

\* resb_in high otherwise: cpu_execute on the opcode IR found at PBR:PC
EmulateExecute(IR, a, f, bound) ==
    /\ cpu.cycles_spent < bound
    /\ cpu.resbIn
    /\ cpu.enabled
    /\ InterruptSample(cpu, nmi_pending).state_type \notin {"Reset", "IRQ", "NMI"}
    /\ Refetched(IR, a)
    /\ LET m == cpu_execute(cpu, mem, IR, a, f)
       IN  /\ cpu' = m.cpu
           /\ mem' = m.mem
           /\ machine' = opcode_print([machine EXCEPT !.dev_debug =
                                           ClemensDeviceDebugger(cpu.PBR, cpu.PC)],
                                       m.opc_inst)
           /\ last_exec' = [Executed(IR, a) EXCEPT !.inst = m.opc_inst]
    /\ last_op' = IR
    /\ reset_seq' = NoResetSeq
    /\ UNCHANGED <<resb_counter, nmi_pending, hex>>

(***************************************************************************)
(* Programs.  The opcode found at PBR:PC, its operand bytes and the bytes  *)
(* found in memory not yet touched are inputs: the opcode is drawn from a  *)
(* repertoire, the bytes from Bytes, as many as the opcode reads.          *)
(***************************************************************************)
Operands(IR) ==
    IF IR \in Imm8Opcodes THEN {<<b, 0, 0>> : b \in Bytes}
    ELSE IF IR \in Imm816Opcodes \cup Abs16Opcodes \cup MoveOpcodes
         THEN {<<b1, b2, 0>> : b1 \in Bytes, b2 \in Bytes}
    ELSE IF IR \in LongOpcodes
         THEN {<<b1, b2, b3>> : b1 \in Bytes, b2 \in Bytes, b3 \in Bytes}
    ELSE IF IR \in DebugOpcodes THEN {<<b, 0, 0>> : b \in Bytes \cup {1}}
    ELSE {Zero3}

FreshBytes(IR) ==
    IF IR \in MoveOpcodes THEN {<<f1, 0, 0, 0>> : f1 \in Bytes}
    ELSE IF IR \in PullOpcodes \cup BreakOpcodes
         THEN {<<f1, f2, 0, 0>> : f1 \in Bytes, f2 \in Bytes}
    ELSE IF IR \in ReturnOpcodes
         THEN {<<f1, f2, f3, f4>> : f1 \in Bytes, f2 \in Bytes, f3 \in Bytes, f4 \in Bytes}
    ELSE {Zero4}

ExecProgram(repertoire, bound) ==
    \E IR \in repertoire :
        \E a \in Operands(IR), f \in FreshBytes(IR) : EmulateExecute(IR, a, f, bound)

(***************************************************************************)
(* Spec: the machine under any program and any host, for MaxCycles cycles. *)
(***************************************************************************)
Next ==
    \/ \E k \in 0..MaxResbCounter : HostReset(k, MaxCycles)
    \/ HostReleaseReset(MaxCycles)
    \/ \E level \in BOOLEAN : HostSetIrq(level, MaxCycles)
    \/ HostSetNmi(MaxCycles)
    \/ EmulateResbLow(MaxCycles)
    \/ EmulateDisabled
    \/ EmulateResetVector(MaxCycles)
    \/ EmulateInterrupt(MaxCycles)
    \/ ExecProgram(Opcodes, MaxCycles)

Spec == Init /\ [][Next]_vars

(***************************************************************************)
(* SpecMode: a longer run, MaxModeCycles cycles, of the programs that      *)
(* switch the mode and the register widths after a power-on reset.         *)
(***************************************************************************)
ModeOpcodes ==
    {"CLC", "SEC", "XCE", "REP", "SEP", "LDX_IMM", "LDY_IMM", "TXS", "INX", "PLP"}

PowerOnReset(bound) == cpu.state_type = "None" /\ HostReset(0, bound)

NextMode ==
    \/ PowerOnReset(MaxModeCycles)
    \/ HostReleaseReset(MaxModeCycles)
    \/ EmulateResbLow(MaxModeCycles)
    \/ EmulateDisabled
    \/ EmulateResetVector(MaxModeCycles)
    \/ ExecProgram(ModeOpcodes, MaxModeCycles)

SpecMode == Init /\ [][NextMode]_vars

(***************************************************************************)
(* SpecInterrupt: MaxInterruptCycles cycles of the programs that switch    *)
(* the mode, the interrupt mask and the run state, under a host that       *)
(* drives the reset and both interrupt lines.                              *)
(***************************************************************************)
InterruptOpcodes == {"CLC", "SEC", "XCE", "CLI", "SEI", "REP", "SED", "PLB", "PLD", "WAI", "STP"}

NextInterrupt ==
    \/ \E k \in 0..MaxResbCounter : HostReset(k, MaxInterruptCycles)
    \/ HostReleaseReset(MaxInterruptCycles)
    \/ \E level \in BOOLEAN : HostSetIrq(level, MaxInterruptCycles)
    \/ HostSetNmi(MaxInterruptCycles)
    \/ EmulateResbLow(MaxInterruptCycles)
    \/ EmulateDisabled
    \/ EmulateResetVector(MaxInterruptCycles)
    \/ EmulateInterrupt(MaxInterruptCycles)
    \/ ExecProgram(InterruptOpcodes, MaxInterruptCycles)

SpecInterrupt == Init /\ [][NextInterrupt]_vars

(***************************************************************************)
(* Programs started in the Execute state.  The specifications below start  *)
(* from register files a program can have built after its reset, so that   *)
(* their cycle budget is spent on the instructions under study.            *)
(***************************************************************************)
\* the processor running, interrupts masked, lines released
Running ==
    [clemens_simple_init EXCEPT !.state_type = "Execute", !.enabled = TRUE, !.readyOut = TRUE,
                                !.emulation = TRUE, !.S = 511,
                                !.P = kClemensCPUStatus_MemoryAccumulator +
                                      kClemensCPUStatus_Index + kClemensCPUStatus_IRQDisable]
\* the machine around a running processor
StartedIn(states) ==
    /\ cpu \in states
    /\ mem = << >>
    /\ resb_counter = 0
    /\ nmi_pending = FALSE
    /\ last_op = "init"
    /\ reset_seq = NoResetSeq
    /\ last_exec = NoExec
    /\ machine = PowerOnMachine
    /\ hex = NoHexCall

(***************************************************************************)
(* SpecCall: subroutine calls and returns, MaxCallCycles cycles, from call *)
(* sites in both modes with the stack at and away from its page edges.     *)
(***************************************************************************)
\* the cycle budget of a run of SpecCall
MaxCallCycles == 13
CallOpcodes == {"JSR", "RTS", "JSL", "RTL"}
CallStacks(e) == IF e THEN {256, 257, 258, 259, 511} ELSE {0, 2, 258, 511}
CallSites ==
    {[Running EXCEPT !.emulation = e, !.S = sp, !.PC = pc, !.PBR = pbr] :
        e \in BOOLEAN, sp \in CallStacks(TRUE) \cup CallStacks(FALSE),
        pc \in {2048, 65534}, pbr \in {0, 18}}
InitCall == StartedIn({c \in CallSites : c.S \in CallStacks(c.emulation)})
\* JSR $1234 and JSL $345678 among the targets
CallOperands(IR) ==
    IF IR = "JSR" THEN {<<52, 18, 0>>, <<0, 0, 0>>, <<255, 255, 0>>}
    ELSE IF IR = "JSL" THEN {<<120, 86, 52>>, <<0, 0, 0>>, <<255, 255, 255>>}
    ELSE {Zero3}
ExecCall(bound) ==
    \E IR \in CallOpcodes :
        \E a \in CallOperands(IR), f \in FreshBytes(IR) : EmulateExecute(IR, a, f, bound)
NextCall == ExecCall(MaxCallCycles)
SpecCall == InitCall /\ [][NextCall]_vars

(***************************************************************************)
(* SpecMove: block moves of up to MaxMoveCount + 1 bytes, in both modes    *)
(* and both index widths, with the indices at and away from their wrap.    *)
(***************************************************************************)
\* largest count a block move starts with in A
MaxMoveCount == 3
\* the cycles of one iteration of a block move: opcode, two banks, read,
\* write, two internal cycles
MoveCycles == 7
\* the cycle budget of a run of SpecMove: the longest move
MaxMoveCycles == MoveCycles * (MaxMoveCount + 1)
MoveIndexes(x8) == IF x8 THEN {0, 255} ELSE {255, 65535}
MoveSites ==
    {[Running EXCEPT !.emulation = w[1],
                     !.P = kClemensCPUStatus_MemoryAccumulator + kClemensCPUStatus_IRQDisable +
                           (IF w[2] THEN kClemensCPUStatus_Index ELSE 0),
                     !.A = n, !.X = x, !.Y = y, !.PC = pc] :
        w \in {<<TRUE, TRUE>>, <<FALSE, TRUE>>, <<FALSE, FALSE>>}, n \in 0..MaxMoveCount,
        x \in MoveIndexes(TRUE) \cup MoveIndexes(FALSE),
        y \in MoveIndexes(TRUE) \cup MoveIndexes(FALSE), pc \in {2048, 65534}}
InitMove ==
    StartedIn({c \in MoveSites : {c.X, c.Y} \subseteq
                                     MoveIndexes(Flag(c.P, kClemensCPUStatus_Index))})
NextMove == ExecProgram(MoveOpcodes, MaxMoveCycles)
SpecMove == InitMove /\ [][NextMove]_vars

(***************************************************************************)
(* SpecFlags: MaxFlagCycles cycles of the programs that rewrite the status *)
(* register and the mode, from register files of both modes and widths.    *)
(***************************************************************************)
\* the cycle budget of a run of SpecFlags
MaxFlagCycles == 8
FlagOpcodes == {"XCE", "REP", "SEP", "WDM", "CLC", "SEC"}
\* immediates of REP and SEP: no bit, C, X, M, M and X, all but M and X, all
StatusMasks == {0, 1, 16, 32, 48, 207, 255}
FlagStatus(e) == IF e THEN {48, 49, 255} ELSE {0, 1, 16, 33, 48, 49, 207}
FlagSites ==
    {[Running EXCEPT !.emulation = e, !.P = pr,
                     !.X = IF Flag(pr, kClemensCPUStatus_Index) THEN 255 ELSE 4863,
                     !.Y = IF Flag(pr, kClemensCPUStatus_Index) THEN 1 ELSE 65281,
                     !.S = sp, !.PC = 2048] :
        e \in BOOLEAN, pr \in FlagStatus(TRUE) \cup FlagStatus(FALSE), sp \in {511, 9214}}
InitFlags ==
    StartedIn({c \in FlagSites : /\ c.P \in FlagStatus(c.emulation)
                                 /\ c.emulation => c.S = 511})
FlagOperands(IR) ==
    IF IR \in Imm8Opcodes THEN {<<b, 0, 0>> : b \in StatusMasks} ELSE Operands(IR)
ExecFlags(bound) ==
    \E IR \in FlagOpcodes : \E a \in FlagOperands(IR) : EmulateExecute(IR, a, Zero4, bound)
NextFlags == ExecFlags(MaxFlagCycles)
SpecFlags == InitFlags /\ [][NextFlags]_vars

(***************************************************************************)
(* SpecJump: MaxJumpCycles cycles of the programs that move PC and PBR:    *)
(* branches, jumps, long calls and returns, software interrupts and block  *)
(* moves, from sites in both modes at and away from the end of the bank.   *)
(***************************************************************************)
\* the cycle budget of a run of SpecJump
MaxJumpCycles == 8
ProgramOpcodes ==
    BranchOpcodes \cup JumpOpcodes \cup
    {"JSL", "RTL", "RTI", "BRK", "COP", "MVN", "MVP", "NOP"}
\* I alone, and I with C, Z, V and N; M and X added in emulation mode
JumpStatus(e) == IF e THEN {52, 247} ELSE {4, 199}
JumpSites ==
    {[Running EXCEPT !.emulation = e, !.P = pr, !.A = 1, !.PC = pc, !.PBR = pbr] :
        e \in BOOLEAN, pr \in JumpStatus(TRUE) \cup JumpStatus(FALSE),
        pc \in {2048, 65533, 65534, 65535}, pbr \in {0, 18}}
InitJump == StartedIn({c \in JumpSites : c.P \in JumpStatus(c.emulation)})
\* displacements 0, -1, +127 and -128 of the short branches and 0, -1,
\* +32767 and -32768 of BRL; JML $345678 among the targets
JumpOperands(IR) ==
    IF IR = "BRA" THEN {<<b, 0, 0>> : b \in {0, 127, 128, 255}}
    ELSE IF IR \in BranchOpcodes THEN {<<127, 0, 0>>, <<128, 0, 0>>}
    ELSE IF IR = "BRL" THEN {<<0, 0, 0>>, <<255, 255, 0>>, <<255, 127, 0>>, <<0, 128, 0>>}
    ELSE IF IR = "JMP_ABS" THEN {<<52, 18, 0>>, <<255, 255, 0>>}
    ELSE IF IR \in {"JMP_ABSL", "JSL"} THEN {<<120, 86, 52>>, <<255, 255, 0>>}
    ELSE IF IR = "JMP_ABSL_INDIRECT" THEN {<<0, 0, 0>>, <<254, 255, 0>>}
    ELSE Operands(IR)
JumpFreshBytes(IR) ==
    IF IR = "JMP_ABSL_INDIRECT" THEN {<<0, 8, 18, 0>>, <<255, 255, 255, 0>>}
    ELSE IF IR \in ReturnOpcodes THEN {<<4, 255, 255, 18>>, <<0, 0, 0, 0>>}
    ELSE FreshBytes(IR)
ExecJump(bound) ==
    \E IR \in ProgramOpcodes :
        \E a \in JumpOperands(IR), f \in JumpFreshBytes(IR) : EmulateExecute(IR, a, f, bound)
NextJump == ExecJump(MaxJumpCycles)
SpecJump == InitJump /\ [][NextJump]_vars

(***************************************************************************)
(* SpecTrace: MaxTraceCycles cycles of short programs, interrupts and      *)
(* resets under a host that registers and clears the opcode callback.      *)
(***************************************************************************)
\* the cycle budget of a run of SpecTrace
MaxTraceCycles == 5
TraceOpcodes == {"NOP", "CLI", "LDA_IMM", "JMP_ABSL", "BRA", "STP"}
TraceSites ==
    {[Running EXCEPT !.emulation = e, !.P = IF e THEN 52 ELSE 4, !.PC = pc, !.PBR = 18] :
        e \in BOOLEAN, pc \in {2048, 65535}}
InitTrace == StartedIn(TraceSites)
NextTrace ==
    \/ \E callback \in {"NULL", "callback"} : HostOpcodeCallback(callback, MaxTraceCycles)
    \/ HostReset(0, MaxTraceCycles)
    \/ HostReleaseReset(MaxTraceCycles)
    \/ \E level \in BOOLEAN : HostSetIrq(level, MaxTraceCycles)
    \/ HostSetNmi(MaxTraceCycles)
    \/ EmulateResbLow(MaxTraceCycles)
    \/ EmulateDisabled
    \/ EmulateResetVector(MaxTraceCycles)
    \/ EmulateInterrupt(MaxTraceCycles)
    \/ \E IR \in TraceOpcodes :
          \E a \in JumpOperands(IR) : EmulateExecute(IR, a, Zero4, MaxTraceCycles)
SpecTrace == InitTrace /\ [][NextTrace]_vars

(***************************************************************************)
(* SpecAssert: MaxAssertCycles cycles from the machine clemens_simple_init *)
(* leaves behind, before any reset, under a host that initialises again,   *)
(* drives resb_in and raises interrupts at any moment.                     *)
(***************************************************************************)
\* the cycle budget of a run of SpecAssert
MaxAssertCycles == 12
AssertOpcodes == {"NOP", "CLI", "STP", "WAI", "BRK"}
\* clemens_simple_init called again: the pins, the clock steps and the bank
\* map are set and the banks of fast RAM cleared; nothing else of the
\* processor is touched
HostSimpleInit(bound) ==
    /\ cpu.cycles_spent < bound
    /\ cpu' = [cpu EXCEPT !.resbIn = TRUE, !.irqbIn = TRUE]
    /\ machine' = clemens_simple_init_machine(
                      machine, InitArguments("NULL", "NULL", "NULL", "fpiRAM", 4, 1, 1))
    /\ mem' = [k \in DOMAIN mem |-> IF k \div 65536 \in {224, 225} THEN mem[k] ELSE 0]
    /\ last_op' = "host"
    /\ UNCHANGED <<resb_counter, nmi_pending, reset_seq, last_exec, hex>>
InitAssert == StartedIn({clemens_simple_init})
NextAssert ==
    \/ HostSimpleInit(MaxAssertCycles)
    \/ \E k \in 0..1 : HostReset(k, MaxAssertCycles)
    \/ HostReleaseReset(MaxAssertCycles)
    \/ \E level \in BOOLEAN : HostSetIrq(level, MaxAssertCycles)
    \/ HostSetNmi(MaxAssertCycles)
    \/ EmulateResbLow(MaxAssertCycles)
    \/ EmulateDisabled
    \/ EmulateResetVector(MaxAssertCycles)
    \/ EmulateInterrupt(MaxAssertCycles)
    \/ ExecProgram(AssertOpcodes, MaxAssertCycles)
SpecAssert == InitAssert /\ [][NextAssert]_vars

(***************************************************************************)
(* SpecBank: MaxBankCycles cycles of any program, of interrupts and of     *)
(* resets, from sites in the last three bytes of bank 0x12 in both modes.  *)
(***************************************************************************)
\* the cycle budget of a run of SpecBank
MaxBankCycles == 3
BankSites ==
    {[Running EXCEPT !.emulation = e, !.P = IF e THEN 52 ELSE 4, !.A = 1, !.PC = pc,
                     !.PBR = 18] :
        e \in BOOLEAN, pc \in {65533, 65534, 65535}}
InitBank == StartedIn(BankSites)
NextBank ==
    \/ \E k \in 0..MaxResbCounter : HostReset(k, MaxBankCycles)
    \/ HostReleaseReset(MaxBankCycles)
    \/ \E level \in BOOLEAN : HostSetIrq(level, MaxBankCycles)
    \/ HostSetNmi(MaxBankCycles)
    \/ EmulateResbLow(MaxBankCycles)
    \/ EmulateDisabled
    \/ EmulateResetVector(MaxBankCycles)
    \/ EmulateInterrupt(MaxBankCycles)
    \/ ExecProgram(Opcodes \cup AluOpcodes, MaxBankCycles)
    \/ ExecJump(MaxBankCycles)
SpecBank == InitBank /\ [][NextBank]_vars

(***************************************************************************)
(* SpecReset: reset sequences in a row, MaxResetCycles cycles, under a     *)
(* host that drives resb_in, from register files of both modes, running,   *)
(* waiting or stopped.                                                     *)
(***************************************************************************)
\* the cycle budget of a run of SpecReset
MaxResetCycles == 16
ResetSites ==
    {[Running EXCEPT !.emulation = e, !.P = pr, !.S = sp, !.A = 4660,
                     !.X = IF Flag(pr, kClemensCPUStatus_Index) THEN 255 ELSE 4863,
                     !.Y = IF Flag(pr, kClemensCPUStatus_Index) THEN 1 ELSE 65281,
                     !.D = d, !.DBR = d % 256, !.PBR = d % 256, !.PC = 2048,
                     !.enabled = w[1], !.readyOut = w[2]] :
        e \in BOOLEAN, pr \in FlagStatus(TRUE) \cup FlagStatus(FALSE),
        sp \in {256, 258, 511, 9214}, d \in {0, 4626},
        w \in {<<TRUE, TRUE>>, <<TRUE, FALSE>>, <<FALSE, TRUE>>}}
InitReset ==
    StartedIn({c \in ResetSites : /\ c.P \in FlagStatus(c.emulation)
                                  /\ c.emulation => c.S < 512})
NextReset ==
    \/ \E k \in 0..MaxResbCounter : HostReset(k, MaxResetCycles)
    \/ HostReleaseReset(MaxResetCycles)
    \/ EmulateResbLow(MaxResetCycles)
    \/ EmulateDisabled
    \/ EmulateResetVector(MaxResetCycles)
SpecReset == InitReset /\ [][NextReset]_vars

(***************************************************************************)
(* SpecStack: pushes and pulls of the accumulator, MaxStackCycles cycles,  *)
(* at both widths, with the stack at and away from the edges of page 1 and *)
(* of bank 0.                                                              *)
(***************************************************************************)
\* the cycle budget of a run of SpecStack
MaxStackCycles == 8
StackOpcodes == {"PHA", "PLA"}
StackPointers(e) == IF e THEN {256, 257, 511} ELSE {0, 1, 255, 256, 511, 65535}
\* M and X set, M alone, X alone, neither
StackStatus(e) == IF e THEN {52} ELSE {52, 36, 20, 4}
StackSites ==
    {[Running EXCEPT !.emulation = e, !.P = pr, !.S = sp, !.A = acc, !.PC = 2048] :
        e \in BOOLEAN, pr \in StackStatus(FALSE),
        sp \in StackPointers(TRUE) \cup StackPointers(FALSE),
        acc \in {0, 128, 255, 4660, 33024, 65280, 65535}}
InitStack ==
    StartedIn({c \in StackSites : /\ c.P \in StackStatus(c.emulation)
                                  /\ c.S \in StackPointers(c.emulation)})
NextStack == ExecProgram(StackOpcodes, MaxStackCycles)
SpecStack == InitStack /\ [][NextStack]_vars

(***************************************************************************)
(* SpecAlu: loads and additions with an immediate operand between flag     *)
(* instructions, MaxAluCycles cycles counted from 0, at both widths of the *)
(* accumulator.                                                            *)
(***************************************************************************)
\* the cycle budget of a run of SpecAlu
MaxAluCycles == 6
AluFlagOpcodes == {"CLC", "SEC", "CLD", "SED"}
\* M and X set, X alone, with and without carry on entry; decimal mode is
\* entered by SED only
AluStatus8 == {52, 53}
AluStatus16 == {20, 21}
AluSites ==
    {[Running EXCEPT !.emulation = e, !.P = pr, !.A = acc, !.PC = 2048] :
        e \in BOOLEAN, pr \in AluStatus8 \cup AluStatus16, acc \in {1, 43778, 39321}}
InitAlu == StartedIn({c \in AluSites : c.emulation => c.P \in AluStatus8})
AluOperands(IR) ==
    IF IR \in {"LDA_IMM", "ADC_IMM"}
    THEN {<<lo, hi, 0>> : lo \in {0, 1, 9, 52, 255}, hi \in {18, 128}}
    ELSE {Zero3}
ExecAlu ==
    \E IR \in AluFlagOpcodes \cup {"LDA_IMM", "ADC_IMM"} :
        \E a \in AluOperands(IR) : EmulateExecute(IR, a, Zero4, MaxAluCycles)
NextAlu == ExecAlu
SpecAlu == InitAlu /\ [][NextAlu]_vars

(***************************************************************************)
(* SpecVgc: the video generator under a host that resets it, sets modes    *)
(* and the region, lets the clock run up to MaxVgcClocks and reads the     *)
(* counter registers with and without the no-op flag.                      *)
(***************************************************************************)
\* the clocks a run of SpecVgc lasts: a frame takes 17065 of them
MaxVgcClocks == 19000
VgcClockSteps == {6300}
VgcRegisters == {"VBLBAR", "VGC_VERTCNT", "VGC_HORIZCNT"}
VgcModes == {{"ENABLE_VBL_IRQ"}, {"HIRES"}}
RegionBytes == {0, 8, 16, 39, 151, 255}
WrappedClocks == {0, 5}
InitVgc == StartedIn({Running})
VgcReset ==
    /\ machine' = [machine EXCEPT !.vgc = clem_vgc_reset(@),
                                  !.io = [NoDeviceCall EXCEPT !.op = "clem_vgc_reset"]]
    /\ UNCHANGED <<cpu, mem, resb_counter, nmi_pending, last_op, reset_seq, last_exec, hex>>
VgcSetMode ==
    \E flags \in VgcModes, set \in BOOLEAN :
       /\ machine' = [machine EXCEPT
                         !.vgc = IF set THEN clem_vgc_set_mode(@, flags)
                                 ELSE clem_vgc_clear_mode(@, flags),
                         !.io = [NoDeviceCall EXCEPT !.op = "clem_vgc_set_mode"]]
       /\ UNCHANGED <<cpu, mem, resb_counter, nmi_pending, last_op, reset_seq, last_exec, hex>>
VgcSetRegion ==
    \E v \in RegionBytes :
       /\ machine' = [machine EXCEPT
                         !.vgc = clem_vgc_set_region(@, v),
                         !.io = [NoDeviceCall EXCEPT !.op = "clem_vgc_set_region", !.arg = v,
                                                     !.result = clem_vgc_get_region(
                                                         clem_vgc_set_region(machine.vgc, v))]]
       /\ UNCHANGED <<cpu, mem, resb_counter, nmi_pending, last_op, reset_seq, last_exec, hex>>
ClockRuns ==
    \E dt \in VgcClockSteps :
       /\ machine.clock.ts + dt <= MaxVgcClocks
       /\ machine' = [machine EXCEPT !.clock.ts = @ + dt,
                                     !.io = [NoDeviceCall EXCEPT !.op = "clock"]]
       /\ UNCHANGED <<cpu, mem, resb_counter, nmi_pending, last_op, reset_seq, last_exec, hex>>
VgcReadSwitch ==
    \E ioreg \in VgcRegisters, no_op \in BOOLEAN, wrapped \in WrappedClocks :
       LET out == clem_vgc_read_switch(machine.vgc, machine.clock, ioreg, no_op, wrapped)
       IN  /\ machine' = [machine EXCEPT
                             !.vgc = out.vgc,
                             !.io = [NoDeviceCall EXCEPT
                                        !.op = "clem_vgc_read_switch", !.arg = ioreg,
                                        !.no_op = no_op, !.result = out.result]]
           /\ UNCHANGED <<cpu, mem, resb_counter, nmi_pending, last_op, reset_seq,
                          last_exec, hex>>
NextVgc == VgcReset \/ VgcSetMode \/ VgcSetRegion \/ ClockRuns \/ VgcReadSwitch
SpecVgc == InitVgc /\ [][NextVgc]_vars

(***************************************************************************)
(* SpecTimer: the timers under a host that resets them, enables and        *)
(* disables them and syncs them with steps of the elapsed time, for        *)
(* MaxTimerUs microseconds after a reset.                                  *)
(***************************************************************************)
\* the microseconds a run of SpecTimer lasts between two resets
MaxTimerUs == 3000000
TimerSteps == {0, 266666, 266667, 733333, 1000000, 2266667}
TimerFlags == {"1SEC_ENABLED", "QSEC_ENABLED"}
IrqLines == {{}, {"TIMER_RTC_1SEC"}, {"TIMER_QSEC", "VGC_BLANK"}}
InitTimer == StartedIn({Running})
TimerReset ==
    /\ machine' = [machine EXCEPT !.timer = clem_timer_reset(@), !.elapsed_us = 0,
                                  !.io = [NoDeviceCall EXCEPT !.op = "clem_timer_reset"]]
    /\ UNCHANGED <<cpu, mem, resb_counter, nmi_pending, last_op, reset_seq, last_exec, hex>>
\* the host writes the timer enable bits
TimerEnable ==
    \E flags \in SUBSET TimerFlags :
       /\ flags # machine.timer.flags
       /\ machine' = [machine EXCEPT !.timer.flags = flags,
                                     !.io = [NoDeviceCall EXCEPT !.op = "enable"]]
       /\ UNCHANGED <<cpu, mem, resb_counter, nmi_pending, last_op, reset_seq, last_exec, hex>>
TimerSync ==
    \E delta_us \in TimerSteps, irq_line \in IrqLines :
       LET out == clem_timer_sync(machine.timer, delta_us, irq_line)
       IN  /\ machine.elapsed_us + delta_us <= MaxTimerUs
           /\ machine' = [machine EXCEPT
                             !.timer = out.timer,
                             !.elapsed_us = @ + delta_us,
                             !.io = [NoDeviceCall EXCEPT
                                        !.op = "clem_timer_sync", !.arg = delta_us,
                                        !.irq_line = irq_line, !.result = out.irq_line]]
           /\ UNCHANGED <<cpu, mem, resb_counter, nmi_pending, last_op, reset_seq,
                          last_exec, hex>>
NextTimer == TimerReset \/ TimerEnable \/ TimerSync
SpecTimer == InitTimer /\ [][NextTimer]_vars

(***************************************************************************)
(* SpecBin: clemens_out_bin_data over the banks of BinBanks, the addresses *)
(* of BinAddresses and the byte counts of BinCounts.  The caller's buffer  *)
(* is described by the memcpy calls made on it: each copies len bytes from *)
(* offset src of the selected bank to offset dst of the buffer.            *)
(***************************************************************************)
CopiedSegment(dst, src, len) == [dst |-> dst, src |-> src, len |-> len]
\* clemens_out_bin_data(clem, out, out_byte_cnt, bank, adr): the outcomes of
\* the call.  right0 - left0 is an unsigned difference: when right0 is below
\* left0 it wraps to more than 4 GiB, and a memcpy of that size runs off both
\* the bank and the buffer: it faults before or after writing past the
\* bytes asked for, or returns having written past them
clemens_out_bin_data(mch, out_byte_cnt, bank, adr) ==
    LET memory == IF bank = 224 \/ bank = 225 THEN mch.mega2_bank_map[(bank % 2) + 1]
                  ELSE mch.fpi_bank_map[bank % 256]
        cnt == IF out_byte_cnt > 65536 THEN 65536 ELSE out_byte_cnt
        left0 == adr
        sum == adr + cnt
        wraps == sum > 65536
        left1 == 0
        right1 == sum - 65536
        right0 == IF wraps THEN sum % 65536 ELSE sum
        first == IF wraps THEN << CopiedSegment(right1, left1, right1 - left1) >> ELSE << >>
    IN  IF right0 >= left0
        THEN {[memory |-> memory, count |-> cnt, returned |-> TRUE, overrun |-> FALSE,
               copies |-> first \o << CopiedSegment(0, left0, right0 - left0) >>]}
        ELSE {[memory |-> memory, count |-> cnt, returned |-> r, overrun |-> o,
               copies |-> first] : <<r, o>> \in {<<FALSE, FALSE>>, <<FALSE, TRUE>>,
                                                 <<TRUE, TRUE>>}}
BinBanks == {0, 1, 4}
BinAddresses == {0, 1, 2, 32768, 65534, 65535}
\* largest byte count handed to clemens_out_bin_data above one bank
MaxBinExcess == 1
BinCounts == {0, 1, 2, 3, 32768, 65535} \cup (65536 .. 65536 + MaxBinExcess)
InitBin == StartedIn({Running})
ClemensOutBinData ==
    \E bank \in BinBanks, adr \in BinAddresses, out_byte_cnt \in BinCounts :
       \E out \in clemens_out_bin_data(machine, out_byte_cnt, bank, adr) :
          /\ machine' = [machine EXCEPT
                            !.io = [NoDeviceCall EXCEPT
                                       !.op = "clemens_out_bin_data",
                                       !.arg = <<bank, adr, out_byte_cnt>>,
                                       !.result = out]]
          /\ UNCHANGED <<cpu, mem, resb_counter, nmi_pending, last_op, reset_seq,
                         last_exec, hex>>
NextBin == ClemensOutBinData
SpecBin == InitBin /\ [][NextBin]_vars

(***************************************************************************)
(* SpecInit: one call of clemens_init or of clemens_simple_init on a       *)
(* zeroed machine, over the arguments of InitCalls.                        *)
(***************************************************************************)
Pointer(name) == {"NULL", name}
\* largest clock step and speed factor handed to clemens_init
MaxClocksStep == 2
InitCalls ==
    {InitArguments(rom, e0, e1, ram, n, step, speed) :
        rom \in Pointer("rom"), e0 \in Pointer("e0bank"), e1 \in Pointer("e1bank"),
        ram \in Pointer("fpiRAM"), n \in {0, 1, 3, 4, 256, 257},
        step \in 0..MaxClocksStep, speed \in 1..MaxClocksStep}
\* clemens_init(machine, ...): writing through a null pointer is undefined;
\* the call faults, or the stores are lost and the call goes on
ClemensInit ==
    /\ machine = ZeroMachine
    /\ \E a \in InitCalls :
          machine' \in {clemens_init(machine, a)} \cup
                       (IF WritesThroughNull(a) THEN {InitFaulted(machine, a)} ELSE {})
    /\ cpu' = [cpu EXCEPT !.resbIn = TRUE, !.irqbIn = TRUE]
    /\ last_op' = "clemens_init"
    /\ UNCHANGED <<mem, resb_counter, nmi_pending, reset_seq, last_exec, hex>>
\* a zeroed ClemensMachine
InitZero ==
    /\ cpu = [clemens_simple_init EXCEPT !.resbIn = FALSE, !.irqbIn = FALSE]
    /\ mem = << >>
    /\ resb_counter = 0
    /\ nmi_pending = FALSE
    /\ last_op = "init"
    /\ reset_seq = NoResetSeq
    /\ last_exec = NoExec
    /\ machine = ZeroMachine
    /\ hex = NoHexCall
\* clemens_simple_init(machine, ...) called on its own
ClemensSimpleInit ==
    /\ machine = ZeroMachine
    /\ \E a \in InitCalls :
          machine' \in {[clemens_simple_init_machine(machine, a) EXCEPT
                            !.args = a, !.returned = TRUE]} \cup
                       (IF WritesThroughNull(a)
                        THEN {[InitFaulted(machine, a) EXCEPT !.called = FALSE]} ELSE {})
    /\ cpu' = [cpu EXCEPT !.resbIn = TRUE, !.irqbIn = TRUE]
    /\ last_op' = "clemens_simple_init"
    /\ UNCHANGED <<mem, resb_counter, nmi_pending, reset_seq, last_exec, hex>>
NextInit == ClemensInit \/ ClemensSimpleInit
SpecInit == InitZero /\ [][NextInit]_vars

(***************************************************************************)
(* SpecHex: one call of clemens_load_hex on the text of one or two Intel   *)
(* HEX records, whole or cut short after at most MaxHexKeep characters.  A *)
(* record is written out by FormatRecord with the checksum it is given,    *)
(* right or wrong, and ends with no line end, LF or CR LF.                 *)
(* The bank is a mapped bank of fast RAM, a bank left on s_empty_ram or    *)
(* bank 0xff, which clemens_simple_init leaves null.                       *)
(***************************************************************************)
FormatByte(b) == <<HexDigits[(b \div 16) + 1], HexDigits[(b % 16) + 1]>>
RECURSIVE FormatBytes(_)
FormatBytes(bytes) ==
    IF bytes = << >> THEN << >> ELSE FormatByte(Head(bytes)) \o FormatBytes(Tail(bytes))
RECURSIVE SumBytes(_)
SumBytes(bytes) == IF bytes = << >> THEN 0 ELSE Head(bytes) + SumBytes(Tail(bytes))
\* the bytes of a record the checksum covers: length, address, type, data
RecordBytes(r) == <<Len(r.data), Hi(r.address), Lo(r.address), r.type>> \o r.data
\* the two's complement of the 8-bit sum of those bytes
RecordChecksum(r) == (256 - (SumBytes(RecordBytes(r)) % 256)) % 256
FormatRecord(r) == <<":">> \o FormatBytes(RecordBytes(r)) \o FormatByte(r.chksum) \o r.eol
LineEnds == {<< >>, <<"LF">>, <<"CR", "LF">>}
\* data records of one and two bytes, the EOF record and a record of type 02,
\* each with its checksum and with a checksum off by one
HexRecords ==
    LET shapes == {[type |-> 0, address |-> 0, data |-> <<171>>],
                   [type |-> 0, address |-> 4863, data |-> <<1, 255>>],
                   [type |-> 1, address |-> 0, data |-> << >>],
                   [type |-> 2, address |-> 0, data |-> << >>]}
    IN  {[type |-> sh.type, address |-> sh.address, data |-> sh.data,
          chksum |-> (RecordChecksum(sh) + off) % 256, eol |-> eol] :
            sh \in shapes, off \in {0, 1}, eol \in LineEnds}
\* the record lists handed to the loader: a record, or a record that ends
\* its line followed by a record
HexFiles ==
    {<<r>> : r \in HexRecords} \cup
    {<<r1, r2>> : r1 \in {r \in HexRecords : r.eol # << >>}, r2 \in HexRecords}
RECURSIVE FormatFile(_)
FormatFile(records) ==
    IF records = << >> THEN << >>
    ELSE FormatRecord(Head(records)) \o FormatFile(Tail(records))

HexBanks == {0, 4, 255}
\* the longest text cut short that is handed to the loader
MaxHexKeep == 20
\* the first keep characters of a text
Kept(text, keep) == IF keep >= Len(text) THEN text ELSE SubSeq(text, 1, keep)
\* clemens_load_hex(clem, hex, hex_end, bank): hex_end is NULL or the end of
\* the text; the bytes of data records are stored in the bank
ClemensLoadHex ==
    /\ ~hex.called
    /\ \E records \in HexFiles, bounded \in BOOLEAN, bank \in HexBanks,
          whole \in BOOLEAN, keep \in 0..MaxHexKeep :
          LET text == IF whole THEN FormatFile(records) ELSE Kept(FormatFile(records), keep)
              out == clemens_load_hex(text, IF bounded THEN Len(text) + 1 ELSE 0, bank,
                                      machine, mem)
          IN  /\ hex' = [records |-> records, text |-> text, bank |-> bank, called |-> TRUE,
                         ret |-> out.ret]
              /\ mem' = out.mem
              /\ machine' = [machine EXCEPT !.s_empty_ram = out.s_empty_ram]
    /\ last_op' = "clemens_load_hex"
    /\ UNCHANGED <<cpu, resb_counter, nmi_pending, reset_seq, last_exec>>
NextHex == ClemensLoadHex
SpecHex == Init /\ [][NextHex]_vars

(***************************************************************************)
(* Properties.                                                             *)
(***************************************************************************)
\* the register file a program sees
Registers(c) == <<c.A, c.X, c.Y, c.S, c.D, c.PC, c.PBR, c.DBR, c.P, c.emulation>>
\* a byte of bank 0 that has been read or written
Touched(memory, addr) == MemKey(0, addr) \in DOMAIN memory
\* the 16-bit word of bank 0 stored at the pair of addresses v
VectorWord(memory, v) == memory[MemKey(0, v[1])] + 256 * memory[MemKey(0, v[2])]
\* pc is the word stored at the pair v, both bytes of which have been read
LoadedFrom(pc, memory, v) ==
    Touched(memory, v[1]) /\ Touched(memory, v[2]) /\ pc = VectorWord(memory, v)
m_flag(c) == Flag(c.P, kClemensCPUStatus_MemoryAccumulator)
x_flag(c) == Flag(c.P, kClemensCPUStatus_Index)
i_flag(c) == Flag(c.P, kClemensCPUStatus_IRQDisable)
d_flag(c) == Flag(c.P, kClemensCPUStatus_Decimal)
\* the CPU is at an instruction boundary after a completed reset sequence
AtBoundary == cpu.state_type = "Execute"

C3_ResetForcesRegisters ==
    last_op = "reset_low" =>
        /\ cpu.state_type = "Reset"
        /\ cpu.emulation /\ m_flag(cpu) /\ x_flag(cpu) /\ i_flag(cpu) /\ ~d_flag(cpu)
        /\ Hi(cpu.S) = 1 /\ cpu.S \div 65536 = 0
        /\ cpu.PBR = 0 /\ cpu.DBR = 0 /\ cpu.D = 0
\* the first step with resb_in low of a reset that interrupts a running program
C3_Witness ==
    last_op = "reset_low" /\ reset_seq.low_steps = 1 /\ reset_seq.start > 7

\* C4 (the step that completes the sequence): PC holds the word at 00FFFC/00FFFD
\* and the CPU is in the Execute state with emulation, M, X and I set
ResetCompleted ==
    last_op = "reset_vector" =>
        /\ reset_seq.low_steps >= 1
        /\ LoadedFrom(cpu.PC, mem,
                      <<CLEM_6502_RESET_VECTOR_LO_ADDR, CLEM_6502_RESET_VECTOR_HI_ADDR>>)
        /\ cpu.state_type = "Execute"
        /\ cpu.emulation /\ m_flag(cpu) /\ x_flag(cpu) /\ i_flag(cpu)
\* C4: for every n >= 1, after n steps with resb_in low and its release, the
\* next step loads PC from 00FFFC/00FFFD and enters Execute with emulation, M,
\* X and I set; no step of the sequence fetches an opcode or takes an interrupt
C4_ResetSequence ==
    [][/\ ResetCompleted'
       /\ (~cpu.resbIn \/ cpu.state_type = "Reset") => last_op' \notin Opcodes \cup {"irq", "nmi"}
      ]_vars
\* a sequence of three steps with resb_in low has completed at vector 0xFF00
C4_Witness ==
    last_op = "reset_vector" /\ reset_seq.low_steps = 3 /\ cpu.PC = 65280

\* C5 (as the code has it): a reset sequence of n steps with resb_in low
\* spends n + 6 cycles up to and including the reset-vector read
C5_ResetCycles ==
    last_op = "reset_vector" =>
        cpu.cycles_spent - reset_seq.start = reset_seq.low_steps + 6
\* a sequence of three steps with resb_in low has completed in nine cycles
C5_Witness ==
    /\ last_op = "reset_vector" /\ reset_seq.low_steps = 3
    /\ cpu.cycles_spent - reset_seq.start = 9
\* C5 (as stated): the reset sequence spends exactly 7 cycles however long
\* resb_in is held low
C5_ResetSevenCycles ==
    last_op = "reset_vector" => cpu.cycles_spent - reset_seq.start = 7

\* C6: after WAI has lowered ready_out, with irqb_in and resb_in deasserted
\* and no NMI pending, the next step leaves registers and memory unchanged
C6_WaiSuspends ==
    [][(/\ last_op = "WAI" /\ ~cpu.readyOut
        /\ cpu.irqbIn /\ cpu.resbIn /\ ~nmi_pending)
       => (Registers(cpu') = Registers(cpu) /\ mem' = mem)]_vars

BelowStack(c, k) ==
    IF c.emulation THEN 256 + ((c.S - k + 256) % 256) ELSE (c.S - k + 65536) % 65536
\* the IRQ vector pair of the mode of c
IrqVectorOf(c) ==
    IF c.emulation
    THEN <<CLEM_6502_IRQBRK_VECTOR_LO_ADDR, CLEM_6502_IRQBRK_VECTOR_HI_ADDR>>
    ELSE <<CLEM_65816_IRQB_VECTOR_LO_ADDR, CLEM_65816_IRQB_VECTOR_HI_ADDR>>
\* the bytes the interrupt sequence leaves on the stack, top first: PBR in
\* native mode only, then PCH, PCL and the status
PushedFrame(c) ==
    IF c.emulation THEN <<Hi(c.PC), Lo(c.PC)>> ELSE <<c.PBR, Hi(c.PC), Lo(c.PC)>>
\* the status bits other than bits 4 and 5
StatusLessBreak(p) == And8(p, 207)

\* C8: the IRQ transition is taken only with irqb_in asserted and I = 0, and
\* then instead of an opcode; it pushes PBR (native only), PCH, PCL and P,
\* sets I, clears the decimal flag, loads PC from the IRQ vector of the
\* current mode and ends in the Execute state
C8_IrqTransition ==
    [][/\ last_op' = "irq" =>
            /\ cpu.state_type = "Execute" /\ ~cpu.irqbIn /\ ~i_flag(cpu)
            /\ cpu'.state_type = "Execute" /\ cpu'.emulation = cpu.emulation
            /\ i_flag(cpu') /\ ~d_flag(cpu')
            /\ StatusLessBreak(cpu'.P) =
                   StatusLessBreak(Clear8(Or8(cpu.P, kClemensCPUStatus_IRQDisable),
                                          kClemensCPUStatus_Decimal))
            /\ \A k \in 1..Len(PushedFrame(cpu)) :
                   mem'[MemKey(0, BelowStack(cpu, k - 1))] = PushedFrame(cpu)[k]
            /\ LET p == mem'[MemKey(0, BelowStack(cpu, Len(PushedFrame(cpu))))]
               IN  IF cpu.emulation THEN StatusLessBreak(p) = StatusLessBreak(cpu.P)
                                    ELSE p = cpu.P
            /\ cpu'.S = BelowStack(cpu, Len(PushedFrame(cpu)) + 1)
            /\ cpu'.PBR = 0
            /\ LoadedFrom(cpu'.PC, mem', IrqVectorOf(cpu))
            /\ cpu'.cycles_spent = cpu.cycles_spent + Len(PushedFrame(cpu)) + 5
       /\ (/\ cpu.resbIn /\ cpu.enabled /\ cpu.state_type = "Execute"
           /\ ~cpu.irqbIn /\ ~i_flag(cpu))
          => last_op' \notin Opcodes \cup {"nmi"}
      ]_vars
\* an IRQ taken in native mode has loaded PC with 0xFF00 from 00FFEE/00FFEF
C8_Witness ==
    last_op = "irq" /\ ~cpu.emulation /\ cpu.PC = 65280

\* the NMI vector pair of the mode of c
NmiVectorOf(c) ==
    IF c.emulation
    THEN <<CLEM_6502_NMI_VECTOR_LO_ADDR, CLEM_6502_NMI_VECTOR_HI_ADDR>>
    ELSE <<CLEM_65816_NMI_VECTOR_LO_ADDR, CLEM_65816_NMI_VECTOR_HI_ADDR>>

\* C9: an NMI transition loads the low byte of PC from the NMI vector low
\* address and the high byte from the NMI vector high address of the current
\* mode, and like the IRQ transition sets I, clears the decimal flag and ends
\* in the Execute state
C9_NmiOwnVector ==
    last_op = "nmi" =>
        /\ LoadedFrom(cpu.PC, mem, NmiVectorOf(cpu))
        /\ cpu.state_type = "Execute" /\ i_flag(cpu) /\ ~d_flag(cpu) /\ cpu.PBR = 0

\* the vector pair of BRK or COP in the mode of c
BreakVectorOf(op, c) ==
    IF op = "BRK"
    THEN IF c.emulation
         THEN <<CLEM_6502_IRQBRK_VECTOR_LO_ADDR, CLEM_6502_IRQBRK_VECTOR_HI_ADDR>>
         ELSE <<CLEM_65816_BRK_VECTOR_LO_ADDR, CLEM_65816_BRK_VECTOR_HI_ADDR>>
    ELSE IF c.emulation
         THEN <<CLEM_6502_COP_VECTOR_LO_ADDR, CLEM_6502_COP_VECTOR_HI_ADDR>>
         ELSE <<CLEM_65816_COP_VECTOR_LO_ADDR, CLEM_65816_COP_VECTOR_HI_ADDR>>

\* C10: BRK and COP, whatever I is, push the PC past the signature byte over
\* PBR (native only) and under the status, set I, clear the decimal flag and
\* load PC from the vector of their own source and mode, low byte from the
\* low address and high byte from the high address
C10_BreakVectors ==
    [][last_op' \in BreakOpcodes =>
         /\ \A k \in 1..Len(PushedFrame(cpu)) :
                mem'[MemKey(0, BelowStack(cpu, k - 1))] =
                    PushedFrame([cpu EXCEPT !.PC = U16(cpu.PC + 2)])[k]
         /\ cpu'.S = BelowStack(cpu, Len(PushedFrame(cpu)) + 1)
         /\ i_flag(cpu') /\ ~d_flag(cpu') /\ cpu'.PBR = 0
         /\ LoadedFrom(cpu'.PC, mem', BreakVectorOf(last_op', cpu))
      ]_vars

\* the 16-bit operand of the instruction that ran last
AbsOperand(e) == e.a[1] + 256 * e.a[2]

\* C11: JSR abs fetched at PC = p pushes p + 2, the address of its last
\* operand byte, high byte at S and low byte at S - 1, leaves S lower by 2
\* (inside page 1 in emulation mode), leaves PBR alone and sets PC to its
\* 16-bit operand
C11_JsrPushesReturn ==
    [][last_op' = "JSR" =>
         /\ mem'[MemKey(0, cpu.S)] = Hi(U16(cpu.PC + 2))
         /\ mem'[MemKey(0, BelowStack(cpu, 1))] = Lo(U16(cpu.PC + 2))
         /\ cpu'.S = BelowStack(cpu, 2)
         /\ cpu'.PBR = cpu.PBR
         /\ cpu'.PC = AbsOperand(last_exec')
      ]_vars
\* JSR $1234 at 0x0800 with S = 0x01FF in emulation mode has left 0x08 at
\* 0x01FF, 0x02 at 0x01FE, S = 0x01FD and PC = 0x1234
C11_Witness ==
    /\ last_op = "JSR" /\ cpu.emulation
    /\ last_exec.cpu.PC = 2048 /\ last_exec.cpu.S = 511
    /\ cpu.PC = 4660 /\ cpu.S = 509
    /\ mem[MemKey(0, 511)] = 8 /\ mem[MemKey(0, 510)] = 2

\* C12: JSL fetched at PBR:PC = b:p stores b at S, the high byte of p + 3 at
\* S - 1 and its low byte at S - 2, leaves S lower by 3 (inside page 1 in
\* emulation mode, where the three bytes are still stored at the 16-bit
\* addresses) and continues at the bank and address of its operand
C12_JslPushesReturn ==
    [][last_op' = "JSL" =>
         /\ mem'[MemKey(0, cpu.S)] = cpu.PBR
         /\ mem'[MemKey(0, cpu.S + 65535)] = Hi(U16(cpu.PC + 3))
         /\ mem'[MemKey(0, cpu.S + 65534)] = Lo(U16(cpu.PC + 3))
         /\ cpu'.S = BelowStack(cpu, 3)
         /\ cpu'.PBR = last_exec'.a[3]
         /\ cpu'.PC = AbsOperand(last_exec')
      ]_vars
\* JSL $345678 at 00:0800 with S = 0x01FF has pushed 0x00, 0x08, 0x03 and
\* continues at 34:5678
C12_Witness ==
    /\ last_op = "JSL"
    /\ last_exec.cpu.PC = 2048 /\ last_exec.cpu.PBR = 0 /\ last_exec.cpu.S = 511
    /\ cpu.PBR = 52 /\ cpu.PC = 22136 /\ cpu.S = 508
    /\ mem[MemKey(0, 511)] = 0 /\ mem[MemKey(0, 510)] = 8 /\ mem[MemKey(0, 509)] = 3
\* C12 as stated: JSL $345678 at 00:0800 pushes 0x00, then 0x08, then 0x04,
\* leaves S lower by 3 and continues at 34:5678
C12_JslExample ==
    [][(last_op' = "JSL" /\ cpu.PC = 2048 /\ cpu.PBR = 0 /\ last_exec'.a = <<120, 86, 52>>) =>
         /\ mem'[MemKey(0, cpu.S)] = 0
         /\ mem'[MemKey(0, cpu.S + 65535)] = 8
         /\ mem'[MemKey(0, cpu.S + 65534)] = 4
         /\ cpu'.S = BelowStack(cpu, 3)
         /\ cpu'.PBR = 52 /\ cpu'.PC = 22136
      ]_vars

\* a return that runs directly after its call: RTS after JSR, RTL after JSL
ReturnsFromCall ==
    \/ last_op = "JSR" /\ last_op' = "RTS"
    \/ last_op = "JSL" /\ last_op' = "RTL"
\* the return resumes directly after the call, in the calling bank, with the
\* stack pointer the call found
Resumed ==
    /\ cpu'.PC = U16(last_exec.cpu.PC + (IF last_op = "JSR" THEN 3 ELSE 4))
    /\ cpu'.PBR = last_exec.cpu.PBR
    /\ cpu'.S = last_exec.cpu.S
\* the three bytes a JSL stores below S stay inside the stack page
FrameInPage(sp) == Lo(sp) >= 3

\* C13 as stated: every call directly followed by its return resumes after
\* the call with S and PBR restored
C13_RoundTripEverywhere == [][ReturnsFromCall => Resumed]_vars
\* C13: a JSR directly followed by RTS resumes at call address + 3, a JSL
\* directly followed by RTL at call address + 4 in the calling bank, with S
\* as before the call; for JSL and RTL in emulation mode this holds when the
\* three bytes of the frame do not cross the lower edge of page 1
C13_RoundTrip ==
    [][(ReturnsFromCall /\ (last_op = "JSL" /\ cpu.emulation => FrameInPage(last_exec.cpu.S)))
         => Resumed]_vars
\* in emulation mode an RTL has returned to 12:0804, directly after the JSL
\* at 12:0800, with S back at 0x01FF
C13_Witness ==
    last_op = "RTL" /\ cpu.emulation /\ cpu.S = 511 /\ cpu.PC = 2052 /\ cpu.PBR = 18

\* the index v stepped by d in the width the X flag of c selects
SteppedIndex(c, v, d) ==
    IF x_flag(c) THEN Hi(v) * 256 + ((Lo(v) + d + 256) % 256) ELSE (v + d + 65536) % 65536

c_flag(c) == Flag(c.P, kClemensCPUStatus_Carry)

\* C15: XCE makes the old carry the emulation bit and the old emulation bit
\* the carry; when it leaves the processor in emulation mode, M = 1, X = 1,
\* the high bytes of X and Y are 0, the high byte of S is 0x01 and the low
\* byte of S is what it was
C15_XceExchanges ==
    [][last_op' = "XCE" =>
         /\ cpu'.emulation = c_flag(cpu)
         /\ c_flag(cpu') = cpu.emulation
         /\ cpu'.emulation =>
               /\ m_flag(cpu') /\ x_flag(cpu')
               /\ Hi(cpu'.X) = 0 /\ Hi(cpu'.Y) = 0
               /\ Hi(cpu'.S) = 1 /\ Lo(cpu'.S) = Lo(cpu.S)
      ]_vars
\* XCE has entered emulation mode from native mode with 16-bit indices and
\* the stack outside page 1
C15_Witness ==
    /\ last_op = "XCE" /\ cpu.emulation /\ ~c_flag(cpu)
    /\ last_exec.cpu.X = 4863 /\ last_exec.cpu.S = 9214 /\ cpu.S = 510 /\ cpu.X = 255

\* the status bits
StatusBits == {1, 2, 4, 8, 16, 32, 64, 128}

\* C16: after REP every status bit selected by the immediate byte is 0 and
\* after SEP it is 1, every other bit is what it was, except that in
\* emulation mode M and X are 1 after either, whatever the immediate
C16_RepSepMask ==
    [][last_op' \in {"REP", "SEP"} =>
         \A b \in StatusBits :
            Flag(cpu'.P, b) =
               IF cpu.emulation /\ b \in {kClemensCPUStatus_MemoryAccumulator,
                                          kClemensCPUStatus_Index}
               THEN TRUE
               ELSE IF Flag(last_exec'.a[1], b) THEN last_op' = "SEP" ELSE Flag(cpu.P, b)
      ]_vars
\* REP #$30 has run in emulation mode and left M = X = 1
C16_Witness ==
    /\ last_op = "REP" /\ last_exec.a[1] = 48 /\ cpu.emulation
    /\ m_flag(cpu) /\ x_flag(cpu)

\* C17: WDM advances PC by 2, spends the 2 cycles of its two fetches and
\* changes no other register, no flag and no byte of memory, whatever its
\* operand byte
C17_WdmIsNop ==
    [][last_op' = "WDM" =>
         /\ cpu'.PC = U16(cpu.PC + 2)
         /\ cpu'.cycles_spent = cpu.cycles_spent + 2
         /\ Registers([cpu' EXCEPT !.PC = 0]) = Registers([cpu EXCEPT !.PC = 0])
         /\ mem' = mem
      ]_vars

\* the error class of the arguments a: -1 for a missing ROM, -2 for too few
\* banks of fast RAM or a missing RAM pointer, 0 for valid arguments
ErrorClass(a) ==
    IF a.rom = "NULL" THEN -1
    ELSE IF a.fpiRAMBankCount < 4 \/ "NULL" \in {a.fpiRAM, a.e0bank, a.e1bank} THEN -2
    ELSE 0

\* C18: clemens_init returns -1 when the ROM pointer is missing, else -2 when
\* the fast RAM bank count is below 4 or a RAM pointer is missing, and 0 only
\* when all arguments are valid
C18_InitReturnCodes ==
    machine.called => machine.returned /\ machine.ret = ErrorClass(machine.args)

\* C19: after clemens_init has returned an error, clemens_is_initialized_simple
\* and clemens_is_initialized both report false
C19_ErrorLeavesUninitialized ==
    machine.returned /\ machine.ret \in {-1, -2} =>
        ~clemens_is_initialized_simple(machine) /\ ~clemens_is_initialized(machine)

\* a record the loader has to refuse: a type other than 00 and 01, or a
\* checksum that is not the two's complement of the sum of its bytes
Offending(r) == r.type \notin {0, 1} \/ r.chksum # RecordChecksum(r)
\* the loader was handed the whole text of the records
WholeText == hex.text = FormatFile(hex.records)
\* the text holds an offending record
HoldsOffending(records) == \E i \in 1..Len(records) : Offending(records[i])

\* C20: clemens_load_hex returns false for every text that holds a record of
\* a type other than 00 and 01 or a record whose checksum does not match,
\* wherever that record sits in the text
C20_LoadHexRejects ==
    (hex.called /\ WholeText /\ HoldsOffending(hex.records)) => ~hex.ret

\* the s_empty_ram page holds zero at every offset
EmptyRamZero(mch) == \A k \in DOMAIN mch.s_empty_ram : mch.s_empty_ram[k] = 0

\* C21: the empty-RAM page behind every unmapped bank is all zero after any
\* sequence of operations, clemens_load_hex into an unmapped bank included
C21_EmptyRamStaysZero == EmptyRamZero(machine)

\* C22: after every step that executes an opcode, dev_debug and the trace
\* record hold the bank and address the opcode was fetched from, whatever the
\* opcode did to PBR and PC
C22_LastFetchLocation ==
    [][last_op' \in ProgramOpcodes =>
         /\ machine'.dev_debug = ClemensDeviceDebugger(cpu.PBR, cpu.PC)
         /\ last_exec'.inst.pbr = cpu.PBR
         /\ last_exec'.inst.addr = cpu.PC
      ]_vars
\* JML $345678 fetched at 12:FFFD has moved PBR:PC to 34:5678
C22_Witness ==
    /\ last_op = "JMP_ABSL" /\ cpu.PBR = 52 /\ cpu.PC = 22136
    /\ machine.dev_debug = ClemensDeviceDebugger(18, 65533)
    /\ last_exec.inst.pbr = 18 /\ last_exec.inst.addr = 65533

\* a second reset sequence in a row has just completed
ResetTwice == last_op = "reset_vector" /\ reset_seq.completed = 2
\* C23 as stated: a reset sequence performed right after a reset sequence
\* leaves the registers, S included, the flags, the pins and the state the
\* first one left
C23_ResetIdempotent == ResetTwice => ResetOutcome(cpu) = reset_seq.post
\* C23: a reset sequence performed right after a reset sequence leaves the
\* registers other than S, the flags, the pins and the state the first one
\* left; S it leaves in page 1, its low byte 3 below the one the first left
C23_ResetIdempotentButStack ==
    ResetTwice =>
        /\ [ResetOutcome(cpu) EXCEPT !.S = 0] = [reset_seq.post EXCEPT !.S = 0]
        /\ cpu.S = CLEM_UTIL_set16_lo(256, reset_seq.post.S + 253)
\* the second reset of a core that ran in native mode with 16 bit indices
\* and its stack at 0x23FE: S is 0x01FB, then 0x01F8
C23_Witness ==
    /\ ResetTwice /\ reset_seq.post.S = 507 /\ cpu.S = 504
    /\ cpu.emulation /\ cpu.X = 255 /\ cpu.Y = 1 /\ cpu.A = 4660

\* C24: a PLA that follows a PHA at once leaves all 16 bits of A and S as
\* the PHA found them, at 8 bit width in both modes and at 16 bit width
C24_StackBalance ==
    [][(last_op = "PHA" /\ last_op' = "PLA") =>
           (cpu'.A = last_exec.cpu.A /\ cpu'.S = last_exec.cpu.S)
      ]_vars
\* a 16 bit PHA and PLA, 9 cycles, with S at 0x0000: the push wraps to the
\* top of bank 0 and the pull comes back
C24_Witness ==
    /\ last_op = "PLA" /\ cpu.cycles_spent = 9 /\ ~m_flag(cpu)
    /\ cpu.S = 0 /\ cpu.A = 4660 /\ MemKey(0, 65535) \in DOMAIN mem

\* C25: LDA # follows the M flag: with M clear it fetches two operand bytes,
\* loads all 16 bits, moves PC on by 3 and takes 3 cycles; with M set it
\* fetches one byte, moves PC on by 2, takes 2 cycles and leaves the high
\* byte of A as it was
C25_LdaImmediateWidth ==
    [][last_op' = "LDA_IMM" =>
         LET a == last_exec'.a
             spent == cpu'.cycles_spent - cpu.cycles_spent
         IN  IF Flag(cpu.P, kClemensCPUStatus_MemoryAccumulator)
             THEN /\ cpu'.A = (cpu.A \div 256) * 256 + a[1]
                  /\ cpu'.PC = U16(cpu.PC + 2)
                  /\ spent = 2 /\ last_exec'.inst.cycles_spent = 2
             ELSE /\ cpu'.A = a[2] * 256 + a[1]
                  /\ cpu'.PC = U16(cpu.PC + 3)
                  /\ spent = 3 /\ last_exec'.inst.cycles_spent = 3
      ]_vars
\* A9 34 12 with M clear: A = 0x1234, N and Z clear, three bytes and three
\* cycles on
C25_Witness ==
    /\ last_op = "LDA_IMM" /\ last_exec.a = <<52, 18, 0>> /\ ~m_flag(cpu)
    /\ cpu.A = 4660 /\ cpu.PC = 2051 /\ cpu.cycles_spent = 3
    /\ ~Flag(cpu.P, kClemensCPUStatus_Negative) /\ ~Flag(cpu.P, kClemensCPUStatus_Zero)
\* A9 34 with M set over A = 0xAB02: the high byte stays
C25_WitnessByte ==
    /\ last_op = "LDA_IMM" /\ last_exec.a[1] = 52 /\ m_flag(cpu)
    /\ cpu.A = 43776 + 52 /\ last_exec.cpu.A = 43778 /\ cpu.PC = 2050 /\ cpu.cycles_spent = 2

\* the cycles of the step being taken and of the one before it
SpentByStep == cpu'.cycles_spent - cpu.cycles_spent
SpentByTwoSteps == SpentByStep + last_exec.inst.cycles_spent
\* C26: every cycle counts once: a one-byte flag instruction takes 2 cycles,
\* ADC # with M set takes 2 cycles in binary and in decimal mode; CLC then
\* ADC #$FF on A = 0x01 gives A = 0x00, C = 1, Z = 1, N = 0 in 4 cycles; under
\* SED, LDA #$09 then ADC #$01 gives A = 0x10, C = 0, 6 cycles with the SED
C26_CycleAccounting ==
    [][/\ last_op' \in AluFlagOpcodes =>
            (SpentByStep = 2 /\ last_exec'.inst.cycles_spent = 2)
       /\ (last_op' = "ADC_IMM" /\ m_flag(cpu)) =>
            (SpentByStep = 2 /\ last_exec'.inst.cycles_spent = 2)
       /\ (/\ last_op = "CLC" /\ last_op' = "ADC_IMM" /\ last_exec'.a[1] = 255
           /\ m_flag(cpu) /\ ~d_flag(cpu) /\ cpu.A % 256 = 1) =>
            /\ cpu'.A = cpu.A - 1
            /\ Flag(cpu'.P, kClemensCPUStatus_Carry)
            /\ Flag(cpu'.P, kClemensCPUStatus_Zero)
            /\ ~Flag(cpu'.P, kClemensCPUStatus_Negative)
            /\ SpentByTwoSteps = 4
       /\ (/\ last_op = "LDA_IMM" /\ last_exec.a[1] = 9 /\ last_op' = "ADC_IMM"
           /\ last_exec'.a[1] = 1
           /\ m_flag(cpu) /\ d_flag(cpu) /\ ~Flag(cpu.P, kClemensCPUStatus_Carry)) =>
            /\ cpu'.A % 256 = 16
            /\ ~Flag(cpu'.P, kClemensCPUStatus_Carry)
            /\ SpentByTwoSteps = 4
            /\ (cpu.cycles_spent = 4 => cpu'.cycles_spent = 6)
      ]_vars
\* SED; LDA #$09; ADC #$01 run from cycle 0: decimal mode comes from the SED,
\* the 9 in A from the LDA, and the ADC ends at cycle 6 with A = 0x10, C = 0
C26_Witness ==
    /\ last_op = "ADC_IMM" /\ last_exec.a[1] = 1 /\ last_exec.cpu.A % 256 = 9
    /\ m_flag(cpu) /\ d_flag(cpu) /\ cpu.cycles_spent = 6
    /\ cpu.A % 256 = 16 /\ ~Flag(cpu.P, kClemensCPUStatus_Carry)
\* CLC; ADC #$FF on A = 0x01 run from cycle 0
C26_WitnessBinary ==
    /\ last_op = "ADC_IMM" /\ last_exec.a[1] = 255 /\ last_exec.cpu.A = 1
    /\ m_flag(cpu) /\ ~d_flag(cpu) /\ cpu.cycles_spent = 4 /\ cpu.A = 0
    /\ Flag(cpu.P, kClemensCPUStatus_Carry) /\ Flag(cpu.P, kClemensCPUStatus_Zero)

\* an emulation step, as opposed to a call of the host on the pins
EmulationStep == last_op' # "host"
\* C27: with resb_in low and a countdown of k > 0 asked for, resb_in goes
\* high at the end of the k-th step taken in reset and of no other; the
\* emulation step after that one completes the reset and enters Execute;
\* with a countdown of 0, resb_in stays low after every step in reset
C27_ResetCountdown ==
    [][/\ (last_op' = "reset_low" /\ reset_seq.armed > 0) =>
            (cpu'.resbIn <=> reset_seq'.armed_steps = reset_seq.armed)
       /\ (last_op' = "reset_low" /\ reset_seq.armed = 0) =>
            (~cpu'.resbIn /\ resb_counter' = 0)
       /\ (last_op = "reset_low" /\ cpu.resbIn /\ reset_seq.armed > 0 /\ EmulationStep) =>
            (last_op' = "reset_vector" /\ cpu'.state_type = "Execute")
      ]_vars
\* a countdown of 2 has released resb_in on the second step in reset
C27_Witness ==
    /\ last_op = "reset_low" /\ cpu.resbIn /\ cpu.state_type = "Reset"
    /\ reset_seq.armed = 2 /\ reset_seq.armed_steps = 2 /\ reset_seq.low_steps = 2
    /\ resb_counter = 0
\* without a countdown resb_in is still low after three steps in reset
C27_WitnessHeld ==
    /\ last_op = "reset_low" /\ ~cpu.resbIn
    /\ reset_seq.armed = 0 /\ reset_seq.armed_steps = 3

\* the opcodes that load the program bank: JML, JML [abs], JSL, RTL, RTI and
\* the software interrupts
BankOpcodes == {"JMP_ABSL", "JMP_ABSL_INDIRECT", "JSL", "RTL", "RTI", "BRK", "COP"}
\* the bytes of an instruction that runs on to the next one
InstructionLength(IR, a, c) ==
    IF IR \in {"LDA_IMM", "ADC_IMM"} THEN (IF m_flag(c) THEN 2 ELSE 3)
    ELSE IF IR \in {"LDX_IMM", "LDY_IMM"} THEN (IF x_flag(c) THEN 2 ELSE 3)
    ELSE IF IR \in Imm8Opcodes THEN 2
    ELSE IF IR \in {"PEA_ABS", "PER"} THEN 3
    ELSE IF IR = "WDM" THEN (IF a[1] = 1 THEN 5 ELSE 2)
    ELSE 1
StraightOpcodes ==
    (ImpliedOpcodes \cup Imm8Opcodes \cup Imm816Opcodes \cup AluOpcodes \cup DebugOpcodes
     \cup PullOpcodes \cup {"PEA_ABS", "PER"}) \ {"RTS"}
\* C28: PC stays within the program bank: an instruction that runs on to the
\* next one, a branch and BRL leave PC at the address they compute modulo
\* 65536 and leave PBR alone, also when a fetch or the target crosses
\* 0xFFFF; PBR changes in no step but JML, JSL, RTL, RTI, BRK, COP, an
\* interrupt entry or a reset
C28_ProgramBankWraps ==
    [][/\ cpu'.PC \in 0..65535
       /\ cpu'.PBR # cpu.PBR => last_op' \in BankOpcodes \cup {"irq", "nmi", "reset_low"}
       /\ last_op' \in StraightOpcodes =>
            /\ cpu'.PC = (cpu.PC + InstructionLength(last_op', last_exec'.a, cpu)) % 65536
            /\ cpu'.PBR = cpu.PBR
       /\ last_op' \in BranchOpcodes =>
            /\ cpu'.PC \in {(cpu.PC + 2) % 65536,
                             (cpu.PC + 2 + Int8(last_exec'.a[1]) + 65536) % 65536}
            /\ cpu'.PBR = cpu.PBR
       /\ last_op' = "BRL" =>
            /\ cpu'.PC = (cpu.PC + 3 + Int16(last_exec'.a[2] * 256 + last_exec'.a[1]) + 65536)
                             % 65536
            /\ cpu'.PBR = cpu.PBR
      ]_vars
\* BRA +127 at 12:FFFF: the operand is fetched at 12:0000 and the branch
\* lands on 12:0080
C28_Witness ==
    /\ last_op = "BRA" /\ last_exec.a[1] = 127
    /\ last_exec.cpu.PBR = 18 /\ last_exec.cpu.PC = 65535
    /\ cpu.PBR = 18 /\ cpu.PC = 128

\* the displacement of the BRL being run, as a signed 16 bit number
BrlDisplacement == Int16(last_exec'.a[2] * 256 + last_exec'.a[1])
\* C29: BRL is taken whatever the flags are: PC becomes the address of the
\* next instruction plus the signed displacement modulo 65536, PBR and the
\* flags stay, and the instruction takes 4 cycles
C29_BrlAlwaysTaken ==
    [][last_op' = "BRL" =>
         /\ BrlDisplacement \in -32768..32767
         /\ cpu'.PC = (cpu.PC + 3 + BrlDisplacement + 65536) % 65536
         /\ cpu'.PBR = cpu.PBR
         /\ cpu'.P = cpu.P
         /\ cpu'.cycles_spent = cpu.cycles_spent + 4
         /\ last_exec'.inst.cycles_spent = 4
      ]_vars
\* BRL -32768 at 00:0800 with C, Z, V and N set lands on 00:8803
C29_Witness ==
    /\ last_op = "BRL" /\ last_exec.a = <<0, 128, 0>>
    /\ last_exec.cpu.PC = 2048 /\ cpu.PC = 34819 /\ cpu.PBR = last_exec.cpu.PBR
    /\ Flag(cpu.P, kClemensCPUStatus_Zero) /\ Flag(cpu.P, kClemensCPUStatus_Negative)
    /\ last_exec.inst.cycles_spent = 4
\* BRL +32767 at 12:FFFD lands on 12:7FFF
C29_WitnessForward ==
    /\ last_op = "BRL" /\ last_exec.a = <<255, 127, 0>>
    /\ last_exec.cpu.PC = 65533 /\ last_exec.cpu.PBR = 18
    /\ cpu.PC = 32767 /\ cpu.PBR = 18

\* the steps that run no opcode: calls of the host, the steps of a reset,
\* the entry into an interrupt and the step of a stopped processor
TransitionSteps == {"host", "reset_low", "reset_vector", "irq", "nmi", "disabled"}
\* a callback is registered
CallbackRegistered == machine.opcode_post # "NULL"
\* C31: while a callback is registered it is called once for every opcode
\* executed, at the end of that instruction, with the bank and address the
\* opcode was fetched from and the cycles the instruction added to
\* cycles_spent; it is not called in a reset, IRQ or NMI step nor once it
\* has been cleared with NULL
C31_CallbackPerOpcode ==
    [][/\ (last_op' \notin TransitionSteps /\ CallbackRegistered) =>
            /\ machine'.posted.calls = machine.posted.calls + 1
            /\ machine'.posted.inst =
                   ClemensInstruction(cpu.PBR, cpu.PC, cpu'.cycles_spent - cpu.cycles_spent)
       /\ (last_op' \in TransitionSteps \/ ~CallbackRegistered) =>
            machine'.posted = machine.posted
      ]_vars
\* two calls in a row, the second for a JML fetched at 12:0801
C31_Witness ==
    /\ last_op = "JMP_ABSL" /\ CallbackRegistered
    /\ machine.posted.calls = 2 /\ machine.posted.inst = ClemensInstruction(18, 2049, 4)
\* the callback was called for the opcode at 12:FFFF, then cleared: the JML
\* at 12:0000 that ran after it was not reported
C31_WitnessCleared ==
    /\ last_op = "JMP_ABSL" /\ last_exec.cpu.PC = 0 /\ ~CallbackRegistered
    /\ machine.posted.calls = 1 /\ machine.posted.inst = ClemensInstruction(18, 65535, 2)

\* C32: a read of a counter register with the no-op flag leaves the whole
\* video generator as it was: the mode flags with the init flag, the time
\* stamps, dt_scanline and irq_line; a read without the flag leaves what
\* clem_vgc_sync makes of it
C32_NoOpReadKeepsVgc ==
    [][machine'.io.op = "clem_vgc_read_switch" =>
         IF machine'.io.no_op
         THEN machine'.vgc = machine.vgc
         ELSE \E wrapped \in WrappedClocks :
                 machine'.vgc = clem_vgc_sync(machine.vgc, machine.clock, wrapped)
      ]_vars
\* a no-op read of the vertical counter after a reset, with the clock at
\* 12600: the init flag is still set and the time stamps are still 0
C32_Witness ==
    /\ machine.io.op = "clem_vgc_read_switch" /\ machine.io.no_op
    /\ machine.io.arg = "VGC_VERTCNT"
    /\ "INIT" \in machine.vgc.mode_flags /\ machine.clock.ts = 12600
    /\ machine.vgc.ts_last_frame = 0 /\ machine.vgc.ts_scanline_0 = 0
\* a no-op read in the vertical blank with the interrupt enabled raises
\* nothing
C32_WitnessBlank ==
    /\ machine.io.op = "clem_vgc_read_switch" /\ machine.io.no_op
    /\ machine.io.arg = "VBLBAR" /\ machine.io.result = 128
    /\ "ENABLE_VBL_IRQ" \in machine.vgc.mode_flags /\ machine.vgc.irq_line = {}

\* the flags the region register holds
RegionFlags == {"LANGUAGE", "PAL"}
\* C40: clem_vgc_get_region after clem_vgc_set_region(v) returns v with its
\* low three bits cleared: bit 3 is the language flag, bit 4 the PAL flag,
\* bits 5-7 the text language; set_region changes no mode flag but those two
C40_RegionRoundTrip ==
    [][machine'.io.op = "clem_vgc_set_region" =>
         LET v == machine'.io.arg IN
         /\ clem_vgc_get_region(machine'.vgc) = v - (v % 8)
         /\ ("LANGUAGE" \in machine'.vgc.mode_flags) = ((v \div 8) % 2 = 1)
         /\ ("PAL" \in machine'.vgc.mode_flags) = ((v \div 16) % 2 = 1)
         /\ machine'.vgc.text_language = v \div 32
         /\ machine'.vgc.mode_flags \ RegionFlags = machine.vgc.mode_flags \ RegionFlags
      ]_vars
\* set_region(0x97) on a generator in a high resolution mode with the
\* language flag set: the register reads 0x90, the resolution is kept
C40_Witness ==
    /\ machine.io.op = "clem_vgc_set_region" /\ machine.io.arg = 151
    /\ clem_vgc_get_region(machine.vgc) = 144
    /\ machine.vgc.mode_flags = {"HIRES", "PAL", "ENABLE_VBL_IRQ"}

\* the counter reaches its period in the sync being made
Reaches1Sec == machine.timer.irq_1sec_us + machine'.io.arg >= CLEM_MEGA2_TIMER_1SEC_US
ReachesQtrSec == machine.timer.irq_qtrsec_us + machine'.io.arg >= CLEM_MEGA2_TIMER_QSEC_US
\* C33: clem_timer_sync returns the irq_line it was given, with the 1 second
\* bit added exactly when the 1 second counter reached its period in this
\* call and the 1 second enable flag is set, and the quarter second bit
\* likewise; no bit of irq_line is cleared, and with no flag enabled, as
\* after clem_timer_reset, nothing is added
C33_TimerBits ==
    [][machine'.io.op = "clem_timer_sync" =>
         /\ machine'.io.result =
               machine'.io.irq_line
               \cup (IF Reaches1Sec /\ "1SEC_ENABLED" \in machine.timer.flags
                     THEN {"TIMER_RTC_1SEC"} ELSE {})
               \cup (IF ReachesQtrSec /\ "QSEC_ENABLED" \in machine.timer.flags
                     THEN {"TIMER_QSEC"} ELSE {})
         /\ machine'.io.irq_line \subseteq machine'.io.result
         /\ machine.timer.flags = {} => machine'.io.result = machine'.io.irq_line
      ]_vars
\* with the quarter second timer alone enabled, a sync of 1 second from 0
\* passes both periods and adds the quarter second bit only
C33_Witness ==
    /\ machine.io.op = "clem_timer_sync" /\ machine.io.arg = 1000000
    /\ machine.elapsed_us = 1000000 /\ machine.timer.flags = {"QSEC_ENABLED"}
    /\ machine.io.irq_line = {} /\ machine.io.result = {"TIMER_QSEC"}
\* C36: after every return of clem_timer_sync the 1 second counter is below
\* its period and the quarter second counter below its own, and each is the
\* time elapsed since the reset modulo its period
C36_TimerCounters ==
    machine.io.op = "clem_timer_sync" =>
        /\ machine.timer.irq_1sec_us < CLEM_MEGA2_TIMER_1SEC_US
        /\ machine.timer.irq_qtrsec_us < CLEM_MEGA2_TIMER_QSEC_US
        /\ machine.timer.irq_1sec_us = machine.elapsed_us % CLEM_MEGA2_TIMER_1SEC_US
        /\ machine.timer.irq_qtrsec_us = machine.elapsed_us % CLEM_MEGA2_TIMER_QSEC_US
\* a sync of 2266667 microseconds after 733333: the 1 second loop ran three
\* times in all, the quarter second loop eleven times
C36_Witness ==
    /\ machine.io.op = "clem_timer_sync" /\ machine.io.arg = 2266667
    /\ machine.elapsed_us = 3000000
    /\ machine.timer.irq_1sec_us = 0 /\ machine.timer.irq_qtrsec_us = 66663

\* the offsets in the bank of the bytes the call stored at out[i]
StoredAt(out, i) ==
    {out.copies[k].src + (i - out.copies[k].dst) :
        k \in {j \in 1..Len(out.copies) :
                  /\ out.copies[j].dst <= i
                  /\ i < out.copies[j].dst + out.copies[j].len}}
\* the call returned having copied count bytes from adr on, wrapping inside
\* the bank, and nothing else
BinCallRight(arg, out) ==
    /\ out.returned
    /\ ~out.overrun
    /\ out.count = (IF arg[3] > 65536 THEN 65536 ELSE arg[3])
    /\ \A i \in 0..(out.count - 1) : StoredAt(out, i) = {(arg[2] + i) % 65536}
    /\ \A k \in 1..Len(out.copies) :
          /\ out.copies[k].dst + out.copies[k].len <= out.count
          /\ out.copies[k].src + out.copies[k].len <= 65536
\* C34: clemens_out_bin_data copies min(out_byte_cnt, 0x10000) bytes of the
\* selected bank in address order from adr, wrapping inside the bank: the
\* call returns, out[i] holds bank[(adr + i) mod 0x10000] for every i below
\* the count, and no byte of out at or above the count is written
C34_BinDataWraps ==
    machine.io.op = "clemens_out_bin_data" => BinCallRight(machine.io.arg, machine.io.result)
\* the calls that stay below the end of the bank copy what the claim says
C34_BinDataStraight ==
    (/\ machine.io.op = "clemens_out_bin_data"
     /\ machine.io.arg[2] + machine.io.result.count <= 65536)
        => BinCallRight(machine.io.arg, machine.io.result)
C34_WitnessStraight ==
    /\ machine.io.op = "clemens_out_bin_data"
    /\ machine.io.arg = <<0, 65534, 2>>
    /\ machine.io.result.copies = << CopiedSegment(0, 65534, 2) >>

\* clemens_simple_init has returned, and was handed RAM
SimpleInitReturned ==
    /\ last_op = "clemens_simple_init"
    /\ machine.returned
    /\ machine.args.fpiRAM # "NULL"
\* each of the banks is used and on its slice, or unused and on s_empty_ram
BanksAsClaimed(mch, banks) ==
    LET n == IF mch.args.fpiRAMBankCount > 256 THEN 256 ELSE mch.args.fpiRAMBankCount
    IN  \A b \in banks :
           IF b < n
           THEN mch.fpi_bank_used[b] /\ mch.fpi_bank_map[b] = FpiBank(mch.args.fpiRAM, b)
           ELSE ~mch.fpi_bank_used[b] /\ mch.fpi_bank_map[b] = "empty"
\* C35: after clemens_simple_init with n banks of fast RAM, n clamped to 256,
\* every bank below n is marked used and maps to its own slice of the RAM
\* supplied, and every bank from n to 255, bank 0xFF included, is marked
\* unused and maps to the empty-RAM page
C35_BanksAfterSimpleInit == SimpleInitReturned => BanksAsClaimed(machine, BankSample)
\* the banks below 0xFF are as the claim says
C35_BanksBelowLast == SimpleInitReturned => BanksAsClaimed(machine, BankSample \ {255})
C35_WitnessBelowLast ==
    /\ SimpleInitReturned
    /\ machine.args.fpiRAMBankCount = 4
    /\ machine.fpi_bank_used[3] /\ machine.fpi_bank_map[3] = "fpiRAM"
    /\ ~machine.fpi_bank_used[4] /\ machine.fpi_bank_map[4] = "empty"
    /\ machine.fpi_bank_map[255] = "NULL"

\* the bytes of the data record r are in the page behind the bank of the call
RecordStored(r) ==
    r.type = 0 =>
       \A i \in 1..Len(r.data) :
          LET offset == U16(r.address + i - 1)
          IN  IF machine.fpi_bank_map[hex.bank] = "empty"
              THEN offset \in DOMAIN machine.s_empty_ram /\ machine.s_empty_ram[offset] = r.data[i]
              ELSE /\ MemKey(hex.bank, offset) \in DOMAIN mem
                   /\ mem[MemKey(hex.bank, offset)] = r.data[i]
\* the first record of the text the loader has to refuse
FailingRecord(records) ==
    CHOOSE k \in 1..Len(records) :
       Offending(records[k]) /\ \A j \in 1..(k - 1) : ~Offending(records[j])
\* C37: clemens_load_hex does not roll back: when it returns false because of
\* a checksum mismatch or a later bad record, the data bytes of the failing
\* record and of every record before it are in memory
C37_LoadHexKeepsBytes ==
    (/\ hex.called /\ ~hex.ret
     /\ machine.fpi_bank_map[hex.bank] # "NULL")
        => /\ HoldsOffending(hex.records)
           /\ \A j \in 1..FailingRecord(hex.records) : RecordStored(hex.records[j])
\* :01000000AB54 and then :0212FF0001FFEE with a wrong checksum and CR LF:
\* false is returned and the three bytes are in bank 0
C37_Witness ==
    /\ hex.called /\ ~hex.ret /\ hex.bank = 0 /\ WholeText
    /\ Len(hex.records) = 2
    /\ ~Offending(hex.records[1]) /\ hex.records[1].data = <<171>>
    /\ hex.records[2].data = <<1, 255>> /\ hex.records[2].chksum # RecordChecksum(hex.records[2])
    /\ mem = (MemKey(0, 0) :> 171) @@ (MemKey(0, 4863) :> 1) @@ (MemKey(0, 4864) :> 255)
\* the failing record is the first one, an earlier record there is none
C37_WitnessFirst ==
    /\ hex.called /\ ~hex.ret /\ hex.bank = 4
    /\ Offending(hex.records[1]) /\ hex.records[1].data = <<171>>
    /\ machine.s_empty_ram = (0 :> 171)

\* the first EOF record of the text, 0 when there is none
FirstEof(records) ==
    IF \E k \in 1..Len(records) : records[k].type = 1
    THEN CHOOSE k \in 1..Len(records) :
            records[k].type = 1 /\ \A j \in 1..(k - 1) : records[j].type # 1
    ELSE 0
\* the text reaches to the end of the checksum of record k
ReachesRecord(text, records, k) ==
    Len(text) >= Len(FormatFile(SubSeq(records, 1, k))) - Len(records[k].eol)
\* the offsets of the data bytes of the records before record k
OffsetsBefore(records, k) ==
    {U16(records[j].address + i - 1) : <<j, i>> \in
        {<<j, i>> \in (1..(k - 1)) \X (1..2) : i <= Len(records[j].data)}}
\* the page behind the bank holds the data of the records before record k
\* and nothing else
StoredUpTo(records, k) ==
    /\ \A j \in 1..(k - 1) : RecordStored(records[j])
    /\ IF machine.fpi_bank_map[hex.bank] = "empty"
       THEN DOMAIN machine.s_empty_ram = OffsetsBefore(records, k) /\ mem = << >>
       ELSE /\ DOMAIN mem = {MemKey(hex.bank, o) : o \in OffsetsBefore(records, k)}
            /\ machine.s_empty_ram = << >>
\* C38: clemens_load_hex returns true whenever the text runs out before the
\* ERROR state is dispatched: for the empty text, for records without fault
\* and no EOF record among them, and for such records cut short anywhere; it
\* stops at the first valid EOF record, and what follows that record changes
\* neither the result nor memory
C38_LoadHexExhausted ==
    hex.called =>
       /\ hex.text = << >> => hex.ret
       /\ (/\ machine.fpi_bank_map[hex.bank] # "NULL"
           /\ ~HoldsOffending(hex.records))
             => hex.ret
       /\ LET k == FirstEof(hex.records)
          IN  (/\ machine.fpi_bank_map[hex.bank] # "NULL"
               /\ k > 0
               /\ \A j \in 1..k : ~Offending(hex.records[j])
               /\ ReachesRecord(hex.text, hex.records, k))
                 => hex.ret /\ StoredUpTo(hex.records, k)
\* :00000001FF and a line end, then a data record with a wrong checksum and
\* CR LF: true is returned and nothing is stored
C38_Witness ==
    /\ hex.called /\ hex.ret /\ hex.bank = 0 /\ WholeText
    /\ Len(hex.records) = 2
    /\ hex.records[1].type = 1 /\ ~Offending(hex.records[1])
    /\ Offending(hex.records[2]) /\ hex.records[2].data = <<171>>
    /\ hex.records[2].eol = <<"CR", "LF">>
    /\ mem = << >>
\* :01000000AB54 cut short after :01000000AB5
C38_WitnessTruncated ==
    /\ hex.called /\ hex.ret /\ hex.bank = 0
    /\ hex.text = <<":", "0", "1", "0", "0", "0", "0", "0", "0", "A", "B", "5">>
    /\ mem = (MemKey(0, 0) :> 171)
\* the empty text, and the text of a data record and no EOF record
C38_WitnessEmpty == hex.called /\ hex.ret /\ hex.text = << >>
C38_WitnessNoEof ==
    /\ hex.called /\ hex.ret /\ hex.bank = 0 /\ WholeText
    /\ Len(hex.records) = 1 /\ hex.records[1].type = 0 /\ ~Offending(hex.records[1])
    /\ hex.records[1].eol = <<"LF">>

\* C39: cpu_execute is entered in the Execute state only, whatever the host
\* did before the step: initialise, assert or release resb_in, raise an IRQ
\* or an NMI, also between the initialisation and the first reset
C39_ExecuteAsserted ==
    [][last_op' \notin TransitionSteps => cpu.state_type = "Execute"]_vars
\* the first reset has completed and an opcode was run with irqb_in asserted
\* and masked
C39_Witness ==
    /\ last_op = "NOP" /\ last_exec.run = 1
    /\ cpu.state_type = "Execute" /\ cpu.enabled /\ cpu.emulation
    /\ ~cpu.irqbIn /\ i_flag(cpu)
\* a step between the initialisation and the first reset ran nothing
C39_WitnessBeforeReset ==
    /\ last_op = "disabled"
    /\ cpu.state_type = "None" /\ ~cpu.enabled /\ cpu.cycles_spent = 0

====
